---- MODULE Spec2Model ----
(***************************************************************************)
(* Model of the password vault of application-resume:                      *)
(*   - the envelope codec chiffrer / dechiffrer of routes/motsDePasse.js   *)
(*     (AES-256-GCM, hex segments joined by ':'),                          *)
(*   - the access gate verifierToken / verifierPin of middleware/auth      *)
(*     and the vault routes behind it,                                     *)
(*   - the TypeScript passwordService (services/password.ts).              *)
(* Strings of the program are sequences: a JavaScript string is a sequence *)
(* of UTF-16 code units (numbers); the text of an envelope is a sequence   *)
(* of one-character strings.                                               *)
(***************************************************************************)
EXTENDS Integers, Sequences, FiniteSets, TLC

(***************************************************************************)
(* Bounds of the model.                                                    *)
(***************************************************************************)
\* longest plaintext secret, in UTF-16 code units
MaxLen == 2
\* number of distinct outcomes of crypto.randomBytes(IV_LENGTH) considered
NbIv == 2
\* longest raw text handed to dechiffrer as a stored value
MaxBrut == 3

(***************************************************************************)
(* Program constants.                                                      *)
(***************************************************************************)
IV_LENGTH == 16
\* length of the key asked from scryptSync
KEY_LENGTH == 32
\* length of the authentication tag of aes-256-gcm (getAuthTag's default)
TAG_LENGTH == 16


(***************************************************************************)
(* Generic helpers on sequences.                                           *)
(***************************************************************************)
RECURSIVE SumSeq(_)
SumSeq(s) ==
    IF s = <<>> THEN 0 ELSE Head(s) + SumSeq(Tail(s))

\* all sequences over S of length at most n
SeqsUpTo(S, n) ==
    UNION {[1..k -> S] : k \in 0..n}

\* bitwise exclusive or of two naturals
RECURSIVE Xor(_, _)
Xor(a, b) ==
    IF a = 0 THEN b
    ELSE IF b = 0 THEN a
    ELSE (((a % 2) + (b % 2)) % 2) + 2 * Xor(a \div 2, b \div 2)

(***************************************************************************)
(* UTF-8: cipher.update(texte, 'utf8') encodes, Buffer + string decodes.   *)
(***************************************************************************)
IsHighSurrogate(c) == c >= 55296 /\ c <= 56319
IsLowSurrogate(c) == c >= 56320 /\ c <= 57343
IsSurrogate(c) == IsHighSurrogate(c) \/ IsLowSurrogate(c)

\* a string every surrogate of which is part of a pair (well-formed UTF-16)
RECURSIVE WellFormed(_)
WellFormed(s) ==
    IF s = <<>> THEN TRUE
    ELSE IF IsHighSurrogate(Head(s))
         THEN Len(s) >= 2 /\ IsLowSurrogate(s[2]) /\ WellFormed(Tail(Tail(s)))
    ELSE ~IsLowSurrogate(Head(s)) /\ WellFormed(Tail(s))

\* the UTF-8 bytes of one code point
EncodeCodePoint(cp) ==
    IF cp < 128 THEN <<cp>>
    ELSE IF cp < 2048 THEN <<192 + (cp \div 64), 128 + (cp % 64)>>
    ELSE IF cp < 65536
         THEN <<224 + (cp \div 4096), 128 + ((cp \div 64) % 64), 128 + (cp % 64)>>
    ELSE <<240 + (cp \div 262144), 128 + ((cp \div 4096) % 64),
           128 + ((cp \div 64) % 64), 128 + (cp % 64)>>

\* Buffer.from(s, 'utf8'): a surrogate pair is one code point, an unpaired
\* surrogate is written as U+FFFD (EF BF BD)
RECURSIVE Utf8Encode(_)
Utf8Encode(s) ==
    IF s = <<>> THEN <<>>
    ELSE IF IsHighSurrogate(Head(s)) /\ Len(s) >= 2 /\ IsLowSurrogate(s[2])
         THEN EncodeCodePoint(65536 + (Head(s) - 55296) * 1024 + (s[2] - 56320))
              \o Utf8Encode(Tail(Tail(s)))
    ELSE IF IsSurrogate(Head(s)) THEN <<239, 191, 189>> \o Utf8Encode(Tail(s))
    ELSE EncodeCodePoint(Head(s)) \o Utf8Encode(Tail(s))

IsContinuation(b) == b >= 128 /\ b <= 191

\* buf.toString('utf8'): the code units of the decoded text; a byte that
\* starts no valid sequence is read as U+FFFD
RECURSIVE Utf8Decode(_)
Utf8Decode(b) ==
    IF b = <<>> THEN <<>>
    ELSE IF b[1] < 128 THEN <<b[1]>> \o Utf8Decode(Tail(b))
    ELSE IF b[1] >= 194 /\ b[1] <= 223 /\ Len(b) >= 2 /\ IsContinuation(b[2])
         THEN <<(b[1] - 192) * 64 + (b[2] - 128)>> \o Utf8Decode(SubSeq(b, 3, Len(b)))
    ELSE IF b[1] >= 224 /\ b[1] <= 239 /\ Len(b) >= 3
            /\ IsContinuation(b[2]) /\ IsContinuation(b[3])
            /\ (b[1] - 224) * 4096 + (b[2] - 128) * 64 + (b[3] - 128) >= 2048
            /\ ~IsSurrogate((b[1] - 224) * 4096 + (b[2] - 128) * 64 + (b[3] - 128))
         THEN <<(b[1] - 224) * 4096 + (b[2] - 128) * 64 + (b[3] - 128)>>
              \o Utf8Decode(SubSeq(b, 4, Len(b)))
    ELSE IF b[1] >= 240 /\ b[1] <= 244 /\ Len(b) >= 4
            /\ IsContinuation(b[2]) /\ IsContinuation(b[3]) /\ IsContinuation(b[4])
         THEN LET cp == (b[1] - 240) * 262144 + (b[2] - 128) * 4096
                        + (b[3] - 128) * 64 + (b[4] - 128)
              IN  IF cp >= 65536 /\ cp <= 1114111
                  THEN <<55296 + ((cp - 65536) \div 1024), 56320 + ((cp - 65536) % 1024)>>
                       \o Utf8Decode(SubSeq(b, 5, Len(b)))
                  ELSE <<65533>> \o Utf8Decode(Tail(b))
    ELSE <<65533>> \o Utf8Decode(Tail(b))

(***************************************************************************)
(* Hexadecimal: buf.toString('hex') and Buffer.from(text, 'hex').          *)
(***************************************************************************)
HexDigits == <<"0", "1", "2", "3", "4", "5", "6", "7",
               "8", "9", "a", "b", "c", "d", "e", "f">>

LowerHex == {HexDigits[i] : i \in 1..16}

\* the value of a hexadecimal digit, -1 for any other character
HexVal(ch) ==
    IF ch \in LowerHex THEN (CHOOSE i \in 1..16 : HexDigits[i] = ch) - 1
    ELSE CASE ch = "A" -> 10 [] ch = "B" -> 11 [] ch = "C" -> 12
           [] ch = "D" -> 13 [] ch = "E" -> 14 [] ch = "F" -> 15
           [] OTHER -> 0 - 1

\* buf.toString('hex'): two lowercase digits per byte
RECURSIVE HexEncode(_)
HexEncode(bytes) ==
    IF bytes = <<>> THEN <<>>
    ELSE <<HexDigits[(Head(bytes) \div 16) + 1], HexDigits[(Head(bytes) % 16) + 1]>>
         \o HexEncode(Tail(bytes))

\* Buffer.from(text, 'hex'): decodes pairs of digits and stops at the first
\* pair that is not hexadecimal (or at a trailing single character)
RECURSIVE HexDecode(_)
HexDecode(text) ==
    IF Len(text) < 2 THEN <<>>
    ELSE IF HexVal(text[1]) < 0 \/ HexVal(text[2]) < 0 THEN <<>>
    ELSE <<HexVal(text[1]) * 16 + HexVal(text[2])>>
         \o HexDecode(SubSeq(text, 3, Len(text)))

\* String.prototype.split(sep): n separators give n + 1 segments
RECURSIVE SplitFrom(_, _, _)
SplitFrom(text, sep, cur) ==
    IF text = <<>> THEN <<cur>>
    ELSE IF Head(text) = sep THEN <<cur>> \o SplitFrom(Tail(text), sep, <<>>)
    ELSE SplitFrom(Tail(text), sep, Append(cur, Head(text)))

Split(text, sep) == SplitFrom(text, sep, <<>>)

(***************************************************************************)
(* aes-256-gcm as used by the codec.  The block cipher is abstracted to a  *)
(* keyed byte function; the structure of the mode is kept: the ciphertext  *)
(* is the plaintext XOR a keystream of (key, iv), and the tag is a         *)
(* polynomial hash of the ciphertext in a field (GF(257) for GF(2^128)),   *)
(* masked by a block derived from (key, iv).                               *)
(***************************************************************************)
\* config.JWT_SECRET, the server secret (process.env.JWT_SECRET)
JWT_SECRET == <<115, 51, 99>>

\* crypto.scryptSync(secret, salt, keylen): keylen bytes, a function of both
ScryptSync(secret, salt, keylen) ==
    [j \in 1..keylen |-> (SumSeq(secret) * 7 + SumSeq(salt) * 3 + j * 11) % 256]

\* the salt 'sel'
ENCRYPTION_KEY == ScryptSync(JWT_SECRET, <<115, 101, 108>>, KEY_LENGTH)

\* the j-th byte of the iv, read cyclically (GCM takes an iv of any length >= 1)
IvByte(iv, j) == iv[((j - 1) % Len(iv)) + 1]

\* the i-th byte of the CTR keystream of (key, iv)
KeyStream(key, iv, i) ==
    (key[((i - 1) % Len(key)) + 1] * 5 + IvByte(iv, i) * 3 + i) % 256

\* CTR mode, both directions: out[i] = in[i] XOR keystream[i]
GcmCrypt(key, iv, data) ==
    [i \in 1..Len(data) |-> Xor(data[i], KeyStream(key, iv, i))]

\* the hash subkey H = E_K(0), a nonzero element of the field
HashKey(key) == 1 + key[1]

\* GHASH: X_i = (X_(i-1) + C_i) * H, the last block being the length
RECURSIVE Ghash(_, _, _)
Ghash(h, data, acc) ==
    IF data = <<>> THEN acc
    ELSE Ghash(h, Tail(data), ((acc + Head(data)) * h) % 257)

\* the tag of (key, iv, ciphertext): GHASH of the ciphertext and its length,
\* written on TAG_LENGTH bytes and masked with E_K(J0)
GcmTag(key, iv, chiffre) ==
    LET x == ((Ghash(HashKey(key), chiffre, 0) + Len(chiffre)) * HashKey(key)) % 257
    IN  [j \in 1..TAG_LENGTH |->
            Xor(IF j = TAG_LENGTH THEN x % 256
                ELSE IF j = TAG_LENGTH - 1 THEN x \div 256 ELSE 0,
                (key[j] + IvByte(iv, j)) % 256)]

\* tag lengths setAuthTag accepts for GCM
ValidTagLengths == {4, 8, 12, 13, 14, 15, 16}

(***************************************************************************)
(* chiffrer and dechiffrer.  The iv drawn by crypto.randomBytes is an      *)
(* argument: the caller chooses it nondeterministically.                   *)
(***************************************************************************)
\* the outcomes of crypto.randomBytes(IV_LENGTH) the model considers
IvPool ==
    {[j \in 1..IV_LENGTH |-> (k * 37 + j * k) % 256] : k \in 1..NbIv}

\* chiffrer with the text taken one byte per code unit (latin1)
chiffrer_Latin1(texte, iv) ==
    LET chiffre == GcmCrypt(ENCRYPTION_KEY, iv, [i \in 1..Len(texte) |-> texte[i] % 256])
        tag == GcmTag(ENCRYPTION_KEY, iv, chiffre)
    IN  HexEncode(iv) \o <<":">> \o HexEncode(chiffre) \o <<":">> \o HexEncode(tag)

chiffrer(texte, iv) ==
    LET chiffre == GcmCrypt(ENCRYPTION_KEY, iv, Utf8Encode(texte))
        tag == GcmTag(ENCRYPTION_KEY, iv, chiffre)
    IN  HexEncode(iv) \o <<":">> \o HexEncode(chiffre) \o <<":">> \o HexEncode(tag)

\* the value a function returns, or the error it throws
Retour(v) == [ok |-> TRUE, valeur |-> v]
Erreur(nom) == [ok |-> FALSE, erreur |-> nom]

\* dechiffrer without the check of the tag
dechiffrer_SansTag(texteChiffre) ==
    LET parts == Split(texteChiffre, ":")
    IN  IF Len(parts) < 3 THEN [ok |-> FALSE, erreur |-> "TypeError"]
        ELSE LET iv == HexDecode(parts[1])
                 chiffre == HexDecode(parts[2])
             IN  IF iv = <<>> THEN [ok |-> FALSE, erreur |-> "InvalidIv"]
                 ELSE [ok |-> TRUE, valeur |-> Utf8Decode(GcmCrypt(ENCRYPTION_KEY, iv, chiffre))]

\* dechiffrer with a missing segment read as the empty string
dechiffrer_SegmentsVides(texteChiffre) ==
    LET parts == Split(texteChiffre, ":") \o <<<<>>, <<>>, <<>>>>
        iv == HexDecode(parts[1])
        chiffre == HexDecode(parts[2])
        tag == HexDecode(parts[3])
    IN  IF iv = <<>> THEN [ok |-> FALSE, erreur |-> "InvalidIv"]
        ELSE IF Len(tag) \notin ValidTagLengths
             THEN [ok |-> FALSE, erreur |-> "InvalidTagLength"]
        ELSE IF tag # SubSeq(GcmTag(ENCRYPTION_KEY, iv, chiffre), 1, Len(tag))
             THEN [ok |-> FALSE, erreur |-> "AuthenticationFailed"]
        ELSE [ok |-> TRUE, valeur |-> Utf8Decode(GcmCrypt(ENCRYPTION_KEY, iv, chiffre))]

dechiffrer(texteChiffre) ==
    LET parts == Split(texteChiffre, ":")
    IN  \* a missing segment is undefined: Buffer.from(undefined, 'hex') throws
        \* ERR_INVALID_ARG_TYPE
        IF Len(parts) < 3 THEN Erreur("TypeError")
        ELSE LET iv == HexDecode(parts[1])
                 chiffre == HexDecode(parts[2])
                 tag == HexDecode(parts[3])
             IN  \* createDecipheriv refuses an empty iv
                 IF iv = <<>> THEN Erreur("InvalidIv")
                 \* setAuthTag refuses a tag of an invalid length
                 ELSE IF Len(tag) \notin ValidTagLengths THEN Erreur("InvalidTagLength")
                 \* decipher.final throws when the tag does not authenticate
                 ELSE IF tag # SubSeq(GcmTag(ENCRYPTION_KEY, iv, chiffre), 1, Len(tag))
                      THEN Erreur("AuthenticationFailed")
                 ELSE Retour(Utf8Decode(GcmCrypt(ENCRYPTION_KEY, iv, chiffre)))

(***************************************************************************)
(* The reveal handler's body once its SELECT has answered: it decrypts the *)
(* stored envelope, attaches the plaintext and drops the envelope; any     *)
(* error thrown on the way is answered 500.                                *)
(***************************************************************************)
\* an HTTP response: its status and the rows (or projections) of its body
Reponse(status, corps) == [status |-> status, corps |-> corps]

\* the row as revealed: mot_de_passe attached, mot_de_passe_crypte deleted
LigneRevelee(ligne, clair) ==
    [id |-> ligne.id, utilisateur_id |-> ligne.utilisateur_id,
     site_web |-> ligne.site_web, identifiant |-> ligne.identifiant,
     notes |-> ligne.notes, cree_le |-> ligne.cree_le,
     modifie_le |-> ligne.modifie_le, mot_de_passe |-> clair]

RevelerCorps(rows) ==
    IF rows = <<>> THEN Reponse(404, <<>>)
    ELSE LET d == dechiffrer(rows[1].mot_de_passe_crypte)
         IN  IF d.ok THEN Reponse(200, <<LigneRevelee(rows[1], d.valeur)>>)
             ELSE Reponse(500, <<>>)

(***************************************************************************)
(* Users, PINs and bcrypt.  The users are those registered earlier; a PIN  *)
(* is a string of digits, <<>> standing for a missing or empty one.        *)
(***************************************************************************)
\* number of registered users
NbUtilisateurs == 2
\* the clock runs from 0 to MaxTemps, in units of the session lifetime
MaxTemps == 1
\* number of logins (tokens issued) considered
MaxConnexions == 1

Utilisateurs == 1..NbUtilisateurs

\* the code PIN user u registered with
PinDe(u) == <<u, u, u, u>>

\* bcrypt.hash(secret, salt): a string that starts with '$', names its salt
\* and is a function of (secret, salt)
BcryptHash(secret, sel) ==
    <<36, sel>> \o [i \in 1..Len(secret) |-> secret[i] + sel + i]

\* bcrypt.compare(secret, hash)
BcryptCompare(secret, hash) ==
    Len(hash) >= 2 /\ hash = BcryptHash(secret, hash[2])

\* the row of table utilisateurs of user u
UtilisateurRow(u) ==
    [id |-> u, code_pin_hash |-> BcryptHash(PinDe(u), u), est_verifie |-> TRUE]

(***************************************************************************)
(* JSON web tokens: jwt.sign({id}, JWT_SECRET, {expiresIn: JWT_EXPIRE}).   *)
(***************************************************************************)
\* config.JWT_EXPIRE ('24h'), the unit of the clock
JWT_EXPIRE == 1

\* no Authorization header, or one without a token
AucunToken == [id |-> 0, iat |-> 0, signature |-> "aucune"]

JwtSign(u, now) == [id |-> u, iat |-> now, signature |-> "valide"]

\* a token not signed with JWT_SECRET
JwtForge(u, now) == [id |-> u, iat |-> now, signature |-> "forgee"]

\* jwt.verify does not throw: the signature is ours and exp is in the future
JwtVerifyOk(token, now) ==
    token.signature = "valide" /\ now < token.iat + JWT_EXPIRE

(***************************************************************************)
(* middleware/auth: verifierToken and verifierPin.  Each returns what the  *)
(* middleware did: suite = "next" when it called next(), "fin" when it     *)
(* answered; rep the answer; evts the calls it made, in order.             *)
(***************************************************************************)
\* the identifiers the module binds (its requires and its own constants)
AuthModuleBindings ==
    {"jwt", "config", "db", "DeviceDetector", "geoip", "deviceDetector"}

Suite(evts) == [suite |-> "next", rep |-> <<>>, evts |-> evts]
Fin(status, evts) == [suite |-> "fin", rep |-> <<Reponse(status, <<>>)>>, evts |-> evts]

\* SELECT * FROM sessions WHERE utilisateur_id = $1 AND token = $2 AND expire_le > NOW()
SessionsValides(sessions, u, token, now) ==
    {s \in sessions : s.utilisateur_id = u /\ s.token = token /\ s.expire_le > now}

\* verifierToken without the lookup of the session row
verifierToken_SansSession(token, sessions, now, dbOk) ==
    IF token = AucunToken THEN Fin(401, <<>>)
    ELSE IF ~JwtVerifyOk(token, now) THEN Fin(401, <<"jwt.verify">>)
    ELSE Suite(<<"jwt.verify">>)

\* verifierToken that rejects an expired session row and accepts the absence
\* of any row
verifierToken_SessionFacultative(token, sessions, now, dbOk) ==
    IF token = AucunToken THEN Fin(401, <<>>)
    ELSE IF ~JwtVerifyOk(token, now) THEN Fin(401, <<"jwt.verify">>)
    ELSE IF ~dbOk THEN Fin(401, <<"jwt.verify", "sessions.select", "db.erreur">>)
    ELSE IF \E s \in sessions : s.token = token /\ s.expire_le <= now
         THEN Fin(401, <<"jwt.verify", "sessions.select">>)
    ELSE Suite(<<"jwt.verify", "sessions.select">>)

verifierToken(token, sessions, now, dbOk) ==
    IF token = AucunToken THEN Fin(401, <<>>)
    ELSE IF ~JwtVerifyOk(token, now) THEN Fin(401, <<"jwt.verify">>)
    \* a failing query throws inside the try: answered 401 by the catch
    ELSE IF ~dbOk THEN Fin(401, <<"jwt.verify", "sessions.select", "db.erreur">>)
    ELSE IF SessionsValides(sessions, token.id, token, now) = {}
         THEN Fin(401, <<"jwt.verify", "sessions.select">>)
    ELSE Suite(<<"jwt.verify", "sessions.select">>)

\* verifierPin with a catch that lets the request through
verifierPin_NextOnError(pin, utilisateurId, dbOk) ==
    IF pin = <<>> THEN Fin(400, <<>>)
    ELSE Suite(<<"utilisateurs.select">>)

verifierPin(pin, utilisateurId, dbOk) ==
    IF pin = <<>> THEN Fin(400, <<>>)
    ELSE IF ~dbOk THEN Fin(500, <<"utilisateurs.select", "db.erreur">>)
    \* bcrypt is no binding of the module: evaluating it throws a
    \* ReferenceError, answered 500 by the catch
    ELSE IF "bcrypt" \notin AuthModuleBindings THEN Fin(500, <<"utilisateurs.select">>)
    ELSE IF ~BcryptCompare(pin, UtilisateurRow(utilisateurId).code_pin_hash)
         THEN Fin(401, <<"utilisateurs.select", "bcrypt.compare">>)
    ELSE Suite(<<"utilisateurs.select", "bcrypt.compare">>)

(***************************************************************************)
(* routes/motsDePasse.js: the handlers behind the gate.  A handler takes   *)
(* the table mots_de_passe_stockes and the request, and gives its answer   *)
(* and the table it leaves: [rep, coffre, prochainId, evts].               *)
(***************************************************************************)
\* lexicographic order on strings
RECURSIVE LexLess(_, _)
LexLess(a, b) ==
    IF b = <<>> THEN FALSE
    ELSE IF a = <<>> THEN TRUE
    ELSE IF Head(a) # Head(b) THEN Head(a) < Head(b)
    ELSE LexLess(Tail(a), Tail(b))

\* ORDER BY site_web ASC (rows of equal site_web by id)
RECURSIVE ParSiteWeb(_)
ParSiteWeb(rows) ==
    IF rows = {} THEN <<>>
    ELSE LET premier == CHOOSE r \in rows : \A q \in rows \ {r} :
                            \/ LexLess(r.site_web, q.site_web)
                            \/ (r.site_web = q.site_web /\ r.id < q.id)
         IN  <<premier>> \o ParSiteWeb(rows \ {premier})

\* a result set of at most one row, as the sequence result.rows
Rows(lignes) == IF lignes = {} THEN <<>> ELSE <<CHOOSE l \in lignes : TRUE>>

Effet(rep, coffre, prochainId, evts) ==
    [rep |-> <<rep>>, coffre |-> coffre, prochainId |-> prochainId, evts |-> evts]

\* validationMotDePasse: siteWeb, identifiant and motDePasse are not empty
ValidationOk(corps) ==
    corps.siteWeb # <<>> /\ corps.identifiant # <<>> /\ corps.motDePasse # <<>>

\* POST /
Ajouter(coffre, prochainId, u, corps, iv, now, dbOk) ==
    IF ~ValidationOk(corps) THEN Effet(Reponse(400, <<>>), coffre, prochainId, <<>>)
    ELSE IF ~dbOk
         THEN Effet(Reponse(500, <<>>), coffre, prochainId, <<"chiffrer", "coffre.insert", "db.erreur">>)
    ELSE LET ligne == [id |-> prochainId, utilisateur_id |-> u,
                       site_web |-> corps.siteWeb, identifiant |-> corps.identifiant,
                       mot_de_passe_crypte |-> chiffrer(corps.motDePasse, iv),
                       notes |-> corps.notes, cree_le |-> now, modifie_le |-> now]
         IN  Effet(Reponse(201, <<[id |-> ligne.id, site_web |-> ligne.site_web,
                                  identifiant |-> ligne.identifiant,
                                  notes |-> ligne.notes, cree_le |-> ligne.cree_le]>>),
                   coffre \cup {ligne}, prochainId + 1, <<"chiffrer", "coffre.insert">>)

\* GET /
\* GET / with a SELECT that has no WHERE
Lister_SansProprietaire(coffre, prochainId, u, dbOk) ==
    LET rows == ParSiteWeb(coffre)
    IN  Effet(Reponse(200, [i \in 1..Len(rows) |->
                             [id |-> rows[i].id, site_web |-> rows[i].site_web,
                              identifiant |-> rows[i].identifiant,
                              notes |-> rows[i].notes, cree_le |-> rows[i].cree_le,
                              modifie_le |-> rows[i].modifie_le]]),
              coffre, prochainId, <<"coffre.select">>)

Lister(coffre, prochainId, u, dbOk) ==
    IF ~dbOk THEN Effet(Reponse(500, <<>>), coffre, prochainId,
                        <<"coffre.select", "db.erreur">>)
    ELSE LET rows == ParSiteWeb({l \in coffre : l.utilisateur_id = u})
         IN  Effet(Reponse(200, [i \in 1..Len(rows) |->
                                  [id |-> rows[i].id, site_web |-> rows[i].site_web,
                                   identifiant |-> rows[i].identifiant,
                                   notes |-> rows[i].notes, cree_le |-> rows[i].cree_le,
                                   modifie_le |-> rows[i].modifie_le]]),
                   coffre, prochainId, <<"coffre.select">>)

\* GET /:id
Reveler(coffre, prochainId, u, id, dbOk) ==
    IF ~dbOk THEN Effet(Reponse(500, <<>>), coffre, prochainId,
                        <<"coffre.select", "db.erreur">>)
    ELSE LET rows == Rows({l \in coffre : l.id = id /\ l.utilisateur_id = u})
         IN  Effet(RevelerCorps(rows), coffre, prochainId,
                   IF rows = <<>> THEN <<"coffre.select">>
                   ELSE <<"coffre.select", "dechiffrer">>)

\* PUT /:id
Modifier(coffre, prochainId, u, id, corps, iv, now, dbOk) ==
    IF ~ValidationOk(corps) THEN Effet(Reponse(400, <<>>), coffre, prochainId, <<>>)
    ELSE IF ~dbOk
         THEN Effet(Reponse(500, <<>>), coffre, prochainId,
                    <<"chiffrer", "coffre.update", "db.erreur">>)
    ELSE LET cibles == {l \in coffre : l.id = id /\ l.utilisateur_id = u}
             maj(l) == [l EXCEPT !.site_web = corps.siteWeb,
                                 !.identifiant = corps.identifiant,
                                 !.mot_de_passe_crypte = chiffrer(corps.motDePasse, iv),
                                 !.notes = corps.notes, !.modifie_le = now]
             rows == Rows({maj(l) : l \in cibles})
         IN  IF rows = <<>>
             THEN Effet(Reponse(404, <<>>), coffre, prochainId,
                        <<"chiffrer", "coffre.update">>)
             ELSE Effet(Reponse(200, <<[id |-> rows[1].id, site_web |-> rows[1].site_web,
                                       identifiant |-> rows[1].identifiant,
                                       notes |-> rows[1].notes,
                                       modifie_le |-> rows[1].modifie_le]>>),
                        (coffre \ cibles) \cup {maj(l) : l \in cibles}, prochainId,
                        <<"chiffrer", "coffre.update">>)

\* DELETE /:id
Supprimer(coffre, prochainId, u, id, dbOk) ==
    IF ~dbOk THEN Effet(Reponse(500, <<>>), coffre, prochainId,
                        <<"coffre.delete", "db.erreur">>)
    ELSE LET cibles == {l \in coffre : l.id = id /\ l.utilisateur_id = u}
         IN  IF cibles = {}
             THEN Effet(Reponse(404, <<>>), coffre, prochainId, <<"coffre.delete">>)
             ELSE Effet(Reponse(200, <<>>), coffre \ cibles, prochainId,
                        <<"coffre.delete">>)

\* POST /verifier-fuite: estCompromis is the constant false
VerifierFuite(coffre, prochainId) ==
    Effet(Reponse(200, <<>>), coffre, prochainId, <<>>)

\* the routes of the vault, and those that verifierPin guards
Routes == {"ajouter", "lister", "reveler", "modifier", "supprimer", "verifierFuite"}
RoutesAvecPin == {"ajouter", "reveler", "modifier", "supprimer"}

(***************************************************************************)
(* services/password.ts: passwordService over the table mots_de_passe.     *)
(* An operation takes the table and its arguments and gives                *)
(* [res, table, prochain]: the promise's outcome, the table it leaves and  *)
(* the next serial id.  An optional field is <<>> when undefined and <<v>> *)
(* when it holds v.                                                        *)
(***************************************************************************)
\* number of salts bcrypt.genSalt draws from
NbSels == 1
Sels == 1..NbSels

\* the promise resolved with rows / rejected with an AppError of this status
Resolu(lignes, evts) == [ok |-> TRUE, status |-> 0, lignes |-> lignes, evts |-> evts]
Rejete(status, evts) == [ok |-> FALSE, status |-> status, lignes |-> <<>>, evts |-> evts]

Resultat(res, table, prochain) == [res |-> res, table |-> table, prochain |-> prochain]

\* a value JavaScript takes as true in a condition: defined and not ''
Truthy(opt) == opt # <<>> /\ opt[1] # <<>>

create(table, prochain, data, sel, now, dbOk) ==
    IF ~dbOk THEN Resultat(Rejete(500, <<"bcrypt.hash", "db.query", "db.erreur">>), table, prochain)
    ELSE LET ligne == [id |-> prochain, utilisateur_id |-> data.utilisateur_id,
                       site_web |-> data.site_web, identifiant |-> data.identifiant,
                       mot_de_passe_crypte |-> BcryptHash(data.mot_de_passe, sel),
                       notes |-> data.notes, cree_le |-> now, modifie_le |-> now]
         IN  Resultat(Resolu(<<ligne>>, <<"bcrypt.hash", "db.query">>),
                      table \cup {ligne}, prochain + 1)

\* the rows of lignes in every order that has cree_le descending
RECURSIVE ParCreeLeDesc(_)
ParCreeLeDesc(lignes) ==
    IF lignes = {} THEN {<<>>}
    ELSE UNION {{<<l>> \o reste : reste \in ParCreeLeDesc(lignes \ {l})} :
                   l \in {m \in lignes : \A q \in lignes : q.cree_le <= m.cree_le}}

\* findAll resolves with one of the orders ORDER BY cree_le DESC allows
findAll(table, utilisateur_id, dbOk) ==
    IF ~dbOk THEN {Rejete(500, <<"db.query", "db.erreur">>)}
    ELSE {Resolu(lignes, <<"db.query">>) :
              lignes \in ParCreeLeDesc({l \in table : l.utilisateur_id = utilisateur_id})}

\* findById with a SELECT on the id alone
findById_SansProprietaire(table, id, utilisateur_id, dbOk) ==
    IF ~dbOk THEN Rejete(500, <<"db.query", "db.erreur">>)
    ELSE LET rows == Rows({l \in table : l.id = id})
         IN  IF rows = <<>> THEN Rejete(404, <<"db.query">>)
             ELSE Resolu(rows, <<"db.query">>)

findById(table, id, utilisateur_id, dbOk) ==
    IF ~dbOk THEN Rejete(500, <<"db.query", "db.erreur">>)
    ELSE LET rows == Rows({l \in table : l.id = id /\ l.utilisateur_id = utilisateur_id})
         IN  IF rows = <<>> THEN Rejete(404, <<"db.query">>)
             ELSE Resolu(rows, <<"db.query">>)

\* update with a WHERE on the id alone
update_SansProprietaire(table, prochain, id, utilisateur_id, data, sel, now, dbOk) ==
    LET cibles == {l \in table : l.id = id}
        maj(l) == [l EXCEPT
                     !.site_web = IF Truthy(data.site_web) THEN data.site_web[1] ELSE @,
                     !.mot_de_passe_crypte = IF Truthy(data.mot_de_passe)
                                             THEN BcryptHash(data.mot_de_passe[1], sel)
                                             ELSE @,
                     !.notes = IF data.notes # <<>> THEN data.notes ELSE @]
    IN  IF cibles = {} THEN Resultat(Rejete(404, <<"db.query">>), table, prochain)
        ELSE Resultat(Resolu(Rows({maj(l) : l \in cibles}), <<"db.query">>),
                      (table \ cibles) \cup {maj(l) : l \in cibles}, prochain)

\* update that sends its statement whatever the data
update_SansGarde(table, prochain, id, utilisateur_id, data, sel, now, dbOk) ==
    LET cibles == {l \in table : l.id = id /\ l.utilisateur_id = utilisateur_id}
        maj(l) == [l EXCEPT !.modifie_le = now + 1]
    IN  IF cibles = {} THEN Resultat(Rejete(404, <<"db.query">>), table, prochain)
        ELSE Resultat(Resolu(Rows({maj(l) : l \in cibles}), <<"db.query">>),
                      (table \ cibles) \cup {maj(l) : l \in cibles}, prochain)

\* update that sets the four columns from the data, as a PUT would
update_ToutRemplacer(table, prochain, id, utilisateur_id, data, sel, now, dbOk) ==
    LET cibles == {l \in table : l.id = id /\ l.utilisateur_id = utilisateur_id}
        maj(l) == [l EXCEPT
                     !.site_web = IF data.site_web # <<>> THEN data.site_web[1] ELSE <<>>,
                     !.identifiant = IF data.identifiant # <<>>
                                     THEN data.identifiant[1] ELSE <<>>,
                     !.mot_de_passe_crypte =
                         BcryptHash(IF data.mot_de_passe # <<>>
                                    THEN data.mot_de_passe[1] ELSE <<>>, sel),
                     !.notes = data.notes,
                     !.modifie_le = now]
    IN  IF cibles = {} THEN Resultat(Rejete(404, <<"db.query">>), table, prochain)
        ELSE Resultat(Resolu(Rows({maj(l) : l \in cibles}), <<"db.query">>),
                      (table \ cibles) \cup {maj(l) : l \in cibles}, prochain)

\* update whose statement selects the row by id alone and writes the caller
\* as its owner
update_PrendPossession(table, prochain, id, utilisateur_id, data, sel, now, dbOk) ==
    LET maj(l) == [l EXCEPT
                     !.utilisateur_id = utilisateur_id,
                     !.site_web = IF Truthy(data.site_web) THEN data.site_web[1] ELSE @,
                     !.identifiant = IF Truthy(data.identifiant)
                                     THEN data.identifiant[1] ELSE @,
                     !.notes = IF data.notes # <<>> THEN data.notes ELSE @,
                     !.modifie_le = now]
        cibles == {l \in table : l.id = id}
    IN  IF ~dbOk THEN Resultat(Rejete(500, <<"db.query", "db.erreur">>), table, prochain)
        ELSE IF cibles = {} THEN Resultat(Rejete(404, <<"db.query">>), table, prochain)
        ELSE Resultat(Resolu(Rows({maj(l) : l \in cibles}), <<"db.query">>),
                      (table \ cibles) \cup {maj(l) : l \in cibles}, prochain)

\* update whose statement writes the salt of the new hash and leaves the rest
\* of the stored one
update_EcritureDechiree(table, prochain, id, utilisateur_id, data, sel, now, dbOk) ==
    LET maj(l) == [l EXCEPT
                     !.site_web = IF Truthy(data.site_web) THEN data.site_web[1] ELSE @,
                     !.identifiant = IF Truthy(data.identifiant)
                                     THEN data.identifiant[1] ELSE @,
                     !.mot_de_passe_crypte = IF Truthy(data.mot_de_passe)
                                             THEN <<36, sel + 1>> \o Tail(Tail(@))
                                             ELSE @,
                     !.notes = IF data.notes # <<>> THEN data.notes ELSE @,
                     !.modifie_le = now]
        cibles == {l \in table : l.id = id /\ l.utilisateur_id = utilisateur_id}
    IN  IF (~Truthy(data.site_web) /\ ~Truthy(data.identifiant) /\ ~Truthy(data.mot_de_passe) /\ data.notes = <<>>) THEN Resultat(Rejete(400, <<>>), table, prochain)
        ELSE IF cibles = {} THEN Resultat(Rejete(404, <<"db.query">>), table, prochain)
        ELSE Resultat(Resolu(Rows({maj(l) : l \in cibles}), <<"db.query">>),
                      (table \ cibles) \cup {maj(l) : l \in cibles}, prochain)

update(table, prochain, id, utilisateur_id, data, sel, now, dbOk) ==
    LET hache == Truthy(data.mot_de_passe)
        avant == IF hache THEN <<"bcrypt.hash">> ELSE <<>>
        aucunChamp == /\ ~Truthy(data.site_web)
                      /\ ~Truthy(data.identifiant)
                      /\ ~hache
                      /\ data.notes = <<>>
        maj(l) == [l EXCEPT
                     !.site_web = IF Truthy(data.site_web) THEN data.site_web[1] ELSE @,
                     !.identifiant = IF Truthy(data.identifiant)
                                     THEN data.identifiant[1] ELSE @,
                     !.mot_de_passe_crypte = IF hache
                                             THEN BcryptHash(data.mot_de_passe[1], sel)
                                             ELSE @,
                     !.notes = IF data.notes # <<>> THEN data.notes ELSE @,
                     !.modifie_le = now]
        cibles == {l \in table : l.id = id /\ l.utilisateur_id = utilisateur_id}
    IN  IF aucunChamp THEN Resultat(Rejete(400, avant), table, prochain)
        ELSE IF ~dbOk THEN Resultat(Rejete(500, avant \o <<"db.query", "db.erreur">>), table, prochain)
        ELSE IF cibles = {} THEN Resultat(Rejete(404, avant \o <<"db.query">>), table, prochain)
        ELSE Resultat(Resolu(Rows({maj(l) : l \in cibles}), avant \o <<"db.query">>),
                      (table \ cibles) \cup {maj(l) : l \in cibles}, prochain)

\* delete with a WHERE on the owner alone
delete_ToutDuProprietaire(table, prochain, id, utilisateur_id, dbOk) ==
    LET cibles == {l \in table : l.utilisateur_id = utilisateur_id}
    IN  IF cibles = {} THEN Resultat(Rejete(404, <<"db.query">>), table, prochain)
        ELSE Resultat(Resolu(<<>>, <<"db.query">>), table \ cibles, prochain)

delete(table, prochain, id, utilisateur_id, dbOk) ==
    LET cibles == {l \in table : l.id = id /\ l.utilisateur_id = utilisateur_id}
    IN  IF ~dbOk THEN Resultat(Rejete(500, <<"db.query", "db.erreur">>), table, prochain)
        ELSE IF cibles = {} THEN Resultat(Rejete(404, <<"db.query">>), table, prochain)
        ELSE Resultat(Resolu(<<>>, <<"db.query">>), table \ cibles, prochain)

(***************************************************************************)
(* passwordService.generateSecurePassword (services/password.ts).  Strings *)
(* are sequences of UTF-16 code units.  Math.random() is a stream of       *)
(* values k / NbAleas; the stream of a call is fixed by its seed.          *)
(***************************************************************************)
\* resolution of Math.random(): its values are 0/NbAleas .. (NbAleas-1)/NbAleas
NbAleas == 8

\* longest length asked for explicitly
MaxLongueur == 5

\* the default of the parameter length
LONGUEUR_DEFAUT == 16

\* numerator of the i-th value (i = 0, 1, ..) of Math.random() in a call
MathRandom(graine, i) == (graine + i) % NbAleas

\* array[Math.floor(Math.random() * array.length)]
getRandomElement(array, r) == array[((r * Len(array)) \div NbAleas) + 1]

lowercase == [i \in 1..26 |-> 96 + i]
uppercase == [i \in 1..26 |-> 64 + i]
numbers == [i \in 1..10 |-> 47 + i]
\* !@#$%^&*()_+-=[]{}|;:,.<>?
symbols ==
    <<33, 64, 35, 36, 37, 94, 38, 42, 40, 41, 95, 43, 45, 61, 91, 93, 123, 125,
      124, 59, 58, 44, 46, 60, 62, 63>>
allChars == lowercase \o uppercase \o numbers \o symbols

\* while (password.length < length) password.push(getRandomElement(allChars))
RECURSIVE Completer(_, _, _, _)
Completer(password, length, graine, i) ==
    IF Len(password) < length
    THEN Completer(Append(password, getRandomElement(allChars, MathRandom(graine, i))),
                   length, graine, i + 1)
    ELSE password

\* password.sort(() => Math.random() - 0.5): the comparator is inconsistent,
\* the order of the result is the implementation's; the orders drawn here
\* are the rotations of the array and their reversals
Melanges(s) ==
    LET Rotation(k) == [i \in 1..Len(s) |-> s[((i - 1 + k) % Len(s)) + 1]]
        Renverse(r) == [i \in 1..Len(r) |-> r[Len(r) + 1 - i]]
    IN  {Rotation(k) : k \in 0..(Len(s) - 1)}
            \cup {Renverse(Rotation(k)) : k \in 0..(Len(s) - 1)}

\* the parameter with its default: <<>> is an omitted argument
LongueurDe(arg) == IF arg = <<>> THEN LONGUEUR_DEFAUT ELSE arg[1]

\* generateSecurePassword without the four guaranteed characters
generateSecurePassword_SansClasses(arg, graine) ==
    {Retour(m) : m \in Melanges(Completer(<<>>, LongueurDe(arg), graine, 0))}

\* the strings generateSecurePassword(length) can return with this seed
generateSecurePassword(arg, graine) ==
    LET length == LongueurDe(arg)
        password == <<getRandomElement(lowercase, MathRandom(graine, 0)),
                      getRandomElement(uppercase, MathRandom(graine, 1)),
                      getRandomElement(numbers, MathRandom(graine, 2)),
                      getRandomElement(symbols, MathRandom(graine, 3))>>
    IN  {Retour(m) : m \in Melanges(Completer(password, length, graine, 4))}

(***************************************************************************)
(* passwordService.checkPasswordStrength (services/password.ts).           *)
(***************************************************************************)
MSG_LONGUEUR == "Le mot de passe doit contenir au moins 8 caractères"
MSG_MAJUSCULE == "Ajouter au moins une majuscule"
MSG_MINUSCULE == "Ajouter au moins une minuscule"
MSG_CHIFFRE == "Ajouter au moins un chiffre"
MSG_SPECIAL == "Ajouter au moins un caractère spécial"
MSG_FORT == "Mot de passe fort"

\* the tests of checkPasswordStrength that have a message, in the order of
\* the code: the point each one adds, the message it pushes
Criteres(password) ==
    LET \* /[A-Z]/, /[a-z]/, /[0-9]/ and /[^A-Za-z0-9]/ on one code unit
        EstMajuscule(c) == c >= 65 /\ c <= 90
        EstMinuscule(c) == c >= 97 /\ c <= 122
        EstChiffre(c) == c >= 48 /\ c <= 57
        EstSpecial(c) == ~EstMajuscule(c) /\ ~EstMinuscule(c) /\ ~EstChiffre(c)
        \* regex.test(password)
        Contient(Classe(_)) == \E i \in 1..Len(password) : Classe(password[i])
        Critere(tenu, message) ==
            [score |-> IF tenu THEN 1 ELSE 0,
             feedback |-> IF tenu THEN <<>> ELSE <<message>>]
    IN  <<Critere(Len(password) >= 8, MSG_LONGUEUR),
          Critere(Contient(EstMajuscule), MSG_MAJUSCULE),
          Critere(Contient(EstMinuscule), MSG_MINUSCULE),
          Critere(Contient(EstChiffre), MSG_CHIFFRE),
          Critere(Contient(EstSpecial), MSG_SPECIAL)>>

RECURSIVE Cumul(_)
Cumul(tests) ==
    IF tests = <<>> THEN [score |-> 0, feedback |-> <<>>]
    ELSE LET reste == Cumul(Tail(tests))
         IN  [score |-> Head(tests).score + reste.score,
              feedback |-> Head(tests).feedback \o reste.feedback]

\* checkPasswordStrength without the point of the long passwords
checkPasswordStrength_SansLongueurSup(password) ==
    LET c == Cumul(Criteres(password))
    IN  [score |-> c.score,
         feedback |-> IF Len(c.feedback) > 0 THEN c.feedback ELSE <<MSG_FORT>>]

\* checkPasswordStrength returning the list of messages as it is
checkPasswordStrength_FeedbackVide(password) ==
    LET c == Cumul(Criteres(password))
    IN  [score |-> c.score + (IF Len(password) >= 12 THEN 1 ELSE 0),
         feedback |-> c.feedback]

\* checkPasswordStrength with a message for the sixth criterion
checkPasswordStrength_MessageLongueurSup(password) ==
    LET c == Cumul(Criteres(password))
        f == c.feedback \o (IF Len(password) >= 12 THEN <<>> ELSE <<MSG_LONGUEUR>>)
    IN  [score |-> c.score + (IF Len(password) >= 12 THEN 1 ELSE 0),
         feedback |-> IF Len(f) > 0 THEN f ELSE <<MSG_FORT>>]

checkPasswordStrength(password) ==
    LET c == Cumul(Criteres(password))
    IN  [score |-> c.score + (IF Len(password) >= 12 THEN 1 ELSE 0),
         feedback |-> IF Len(c.feedback) > 0 THEN c.feedback ELSE <<MSG_FORT>>]

(***************************************************************************)
(* errorHandler (middleware/errorHandler) and the error classes of types.  *)
(***************************************************************************)
\* the classes of the errors and the class each one extends
ClasseParente ==
    [ValidationError |-> "AppError",
     AuthenticationError |-> "AppError",
     AuthorizationError |-> "AppError",
     NotFoundError |-> "AppError",
     AppError |-> "Error",
     TokenExpiredError |-> "JsonWebTokenError",
     JsonWebTokenError |-> "Error",
     SyntaxError |-> "Error",
     Error |-> "Error"]

RECURSIVE InstanceOf(_, _)
InstanceOf(classe, C) ==
    IF classe = C THEN TRUE
    ELSE IF classe = "Error" THEN FALSE
    ELSE InstanceOf(ClasseParente[classe], C)

\* an error object: details and status are <<>> when the object has none
ErreurObjet(classe, message, status, details) ==
    [classe |-> classe, message |-> message, status |-> status, details |-> details,
     stack |-> <<"stack", classe, message>>]

MSG_GENERIQUE == "Une erreur interne est survenue"

\* res.status(status).json({success: false, error: {...}}); a field that is
\* undefined is not in the JSON: it is <<>> here
ReponseErreur(status, message, details, stack) ==
    [status |-> status,
     body |-> [success |-> FALSE,
               error |-> [message |-> message, status |-> status,
                          details |-> details, stack |-> stack]]]

\* errorHandler answering every error as in development
errorHandler_StackPartout(err, NODE_ENV) ==
    ReponseErreur(500, err.message, <<>>, <<err.stack>>)

errorHandler(err, NODE_ENV) ==
    IF InstanceOf(err.classe, "ValidationError")
    THEN ReponseErreur(400, err.message, err.details, <<>>)
    ELSE IF InstanceOf(err.classe, "AuthenticationError")
            \/ InstanceOf(err.classe, "JsonWebTokenError")
    THEN ReponseErreur(401, err.message, <<>>, <<>>)
    ELSE IF InstanceOf(err.classe, "AuthorizationError")
    THEN ReponseErreur(403, err.message, <<>>, <<>>)
    ELSE IF InstanceOf(err.classe, "NotFoundError")
    THEN ReponseErreur(404, err.message, <<>>, <<>>)
    ELSE IF InstanceOf(err.classe, "AppError")
    THEN ReponseErreur(err.status[1], err.message, err.details, <<>>)
    ELSE IF NODE_ENV = "development"
    THEN ReponseErreur(500, err.message, <<>>, <<err.stack>>)
    ELSE ReponseErreur(500, MSG_GENERIQUE, <<>>, <<>>)

(***************************************************************************)
(* authService (services/auth.ts).  The tables utilisateurs and            *)
(* tokens_verification are sets of rows; a call returns its outcome and    *)
(* the tables it leaves.  panne is the rank of the query that fails in the *)
(* call, 0 when none does.                                                 *)
(***************************************************************************)
\* lifetime of an email token (24 h, one unit of the clock) and of a reset
\* token (1 h: it is expired at the next unit)
DUREE_JETON_EMAIL == 1
DUREE_JETON_RESET == 0

AuthResultat(res, utilisateurs, jetons) ==
    [res |-> res, utilisateurs |-> utilisateurs, jetons |-> jetons]

\* login without the test of est_verifie
login_SansVerification(utilisateurs, data, now, panne) ==
    LET rows == {u \in utilisateurs : u.email = data.email}
        user == CHOOSE u \in rows : TRUE
    IN  IF panne = 1 THEN Rejete(500, <<"db.query", "db.erreur">>)
        ELSE IF rows = {} THEN Rejete(404, <<"db.query">>)
        ELSE IF ~BcryptCompare(data.mot_de_passe, user.mot_de_passe_hash)
             THEN Rejete(401, <<"db.query", "bcrypt.compare">>)
        ELSE Resolu(<<[token |-> JwtSign(user.id, now), user |-> user.id]>>,
                    <<"db.query", "bcrypt.compare", "jwt.sign">>)

login(utilisateurs, data, now, panne) ==
    LET rows == {u \in utilisateurs : u.email = data.email}
        user == CHOOSE u \in rows : TRUE
    IN  IF panne = 1 THEN Rejete(500, <<"db.query", "db.erreur">>)
        ELSE IF rows = {} THEN Rejete(404, <<"db.query">>)
        ELSE IF ~BcryptCompare(data.mot_de_passe, user.mot_de_passe_hash)
             THEN Rejete(401, <<"db.query", "bcrypt.compare">>)
        ELSE IF ~user.est_verifie THEN Rejete(401, <<"db.query", "bcrypt.compare", "est_verifie">>)
        ELSE Resolu(<<[token |-> JwtSign(user.id, now), user |-> user.id]>>,
                    <<"db.query", "bcrypt.compare", "jwt.sign">>)

verifyEmail(utilisateurs, jetons, token, now, panne) ==
    LET rows == {j \in jetons : j.token = token /\ j.type = "email"}
        verificationToken == CHOOSE j \in rows : TRUE
        verifies == {IF u.id = verificationToken.utilisateur_id
                     THEN [u EXCEPT !.est_verifie = TRUE] ELSE u : u \in utilisateurs}
    IN  IF panne = 1 THEN AuthResultat(Rejete(500, <<"db.erreur">>), utilisateurs, jetons)
        ELSE IF rows = {} THEN AuthResultat(Rejete(400, <<"select">>), utilisateurs, jetons)
        ELSE IF verificationToken.expire_le < now
             THEN AuthResultat(Rejete(400, <<"select", "expire">>), utilisateurs, jetons)
        ELSE IF panne = 2
             THEN AuthResultat(Rejete(500, <<"select", "db.erreur">>), utilisateurs, jetons)
        ELSE IF panne = 3
             THEN AuthResultat(Rejete(500, <<"select", "update", "db.erreur">>), verifies, jetons)
        ELSE AuthResultat(Resolu(<<>>, <<"select", "update", "delete">>),
                          verifies, jetons \ {verificationToken})

\* resetPassword takes an email and a password; it reads no token
resetPassword(utilisateurs, jetons, data, sel, panne) ==
    LET rows == {u \in utilisateurs : u.email = data.email}
        user == CHOOSE u \in rows : TRUE
    IN  IF panne = 1 THEN AuthResultat(Rejete(500, <<"db.erreur">>), utilisateurs, jetons)
        ELSE IF rows = {} THEN AuthResultat(Rejete(404, <<"select">>), utilisateurs, jetons)
        ELSE IF panne = 2
             THEN AuthResultat(Rejete(500, <<"select", "bcrypt.hash", "db.erreur">>),
                               utilisateurs, jetons)
        ELSE AuthResultat(Resolu(<<>>, <<"select", "bcrypt.hash", "update">>),
                          (utilisateurs \ {user}) \cup
                              {[user EXCEPT !.mot_de_passe_hash =
                                                BcryptHash(data.nouveauMotDePasse, sel)]},
                          jetons)

(***************************************************************************)
(* Codec specification: the codec applied to bounded inputs.               *)
(***************************************************************************)
VARIABLES
    cTexte,      \* the plaintext last given to chiffrer
    cEnveloppe,  \* the stored text: an envelope, an altered one, or raw text
    cOrigine,    \* "vide", "chiffrer", "altere" or "brut": where it comes from
    cSortie,     \* <<>> or <<what dechiffrer(cEnveloppe) returned or threw>>
    cReponse     \* <<>> or <<the reveal handler's answer for cEnveloppe>>

codecVars == <<cTexte, cEnveloppe, cOrigine, cSortie, cReponse>>

VARIABLES
    temps,       \* the clock (NOW() of the database, Date.now() of the server)
    sessions,    \* table sessions: rows [utilisateur_id, token, expire_le]
    emis,        \* the tokens /connexion has handed to clients
    coffre,      \* table mots_de_passe_stockes
    prochainId,  \* the next value of the table's serial id
    req          \* the request in the middleware chain of the vault's router

appVars == <<temps, sessions, emis, coffre, prochainId, req>>

VARIABLES
    mdp,         \* table mots_de_passe
    mdpId,       \* the next value of the table's serial id
    sAppel,      \* the call to passwordService in progress and its outcome
    clairs       \* for each id, the secret its owner last had stored under it

svcVars == <<mdp, mdpId, sAppel, clairs>>

VARIABLES
    gAppel,      \* the call to generateSecurePassword in progress and its outcome
    fAppel,      \* the call to checkPasswordStrength in progress and its outcome
    eAppel       \* the error errorHandler is answering and its response

outilVars == <<gAppel, fAppel, eAppel>>

VARIABLES
    kEtat,       \* two concurrent calls to passwordService.update on one record
    dEtat,       \* the process: its environment, its configuration, its key
    aEtat,       \* tables utilisateurs and tokens_verification, the call to authService
    tEtat,       \* the pool and the calls to db.transaction in progress
    hEtat        \* a throttled function: its closure, the clock, the invocations

suiteVars == <<kEtat, dEtat, aEtat, tEtat, hEtat>>

\* the variables each specification leaves alone
horsCodec == <<appVars, svcVars, outilVars, suiteVars>>
horsApp == <<codecVars, svcVars, outilVars, suiteVars>>
horsService == <<codecVars, sessions, emis, coffre, prochainId, req, outilVars, suiteVars>>
horsOutils == <<codecVars, appVars, svcVars, suiteVars>>
horsConc == <<codecVars, appVars, sAppel, clairs, outilVars, dEtat, aEtat, tEtat, hEtat>>
horsDem == <<codecVars, appVars, svcVars, outilVars, kEtat, aEtat, tEtat, hEtat>>
horsAuth == <<codecVars, sessions, emis, coffre, prochainId, req, svcVars, outilVars, kEtat, dEtat, tEtat, hEtat>>
horsTx == <<codecVars, appVars, svcVars, outilVars, kEtat, dEtat, aEtat, hEtat>>
horsThrottle == <<codecVars, appVars, svcVars, outilVars, kEtat, dEtat, aEtat, tEtat>>

\* code units of the plaintexts: ':', U+00E9 and the two halves of the pair
\* of U+1F600 (1, 2 and 4 bytes of UTF-8; an unpaired half takes 3)
CodeUnits == {58, 233, 55357, 56832}

Textes == SeqsUpTo(CodeUnits, MaxLen)

\* characters of the raw texts: hexadecimal digits, the separator, others
BrutChars == {"0", "a", ":", "z"}

Bruts == SeqsUpTo(BrutChars, MaxBrut)

\* the positions of the ciphertext segment and of the tag segment
RECURSIVE SeparatorPositions(_, _)
SeparatorPositions(text, i) ==
    IF i > Len(text) THEN <<>>
    ELSE IF text[i] = ":" THEN <<i>> \o SeparatorPositions(text, i + 1)
    ELSE SeparatorPositions(text, i + 1)

AlterablePositions(env) ==
    {i \in 1..Len(env) : i > SeparatorPositions(env, 1)[1] /\ env[i] # ":"}

\* a row of the vault's table holding the stored text
LigneDe(env) ==
    [id |-> 1, utilisateur_id |-> 1, site_web |-> <<115>>, identifiant |-> <<117>>,
     mot_de_passe_crypte |-> env, notes |-> <<>>, cree_le |-> 0, modifie_le |-> 0]

CodecInit ==
    /\ cTexte = <<>>
    /\ cEnveloppe = <<>>
    /\ cOrigine = "vide"
    /\ cSortie = <<>>
    /\ cReponse = <<>>

\* Encrypt: chiffrer on a plaintext, with a freshly drawn iv
CodecChiffrer ==
    \E s \in Textes, iv \in IvPool :
        /\ cOrigine = "vide"
        /\ cTexte' = s
        /\ cEnveloppe' = chiffrer(s, iv)
        /\ cOrigine' = "chiffrer"
        /\ cSortie' = <<>>
        /\ cReponse' = <<>>
        /\ UNCHANGED horsCodec

\* the stored envelope is corrupted: one hexadecimal digit of its ciphertext
\* or tag segment is replaced by another hexadecimal digit
CodecAlterer ==
    /\ cOrigine = "chiffrer"
    /\ \E pos \in AlterablePositions(cEnveloppe) :
           \E ch \in LowerHex \ {cEnveloppe[pos]} :
               cEnveloppe' = [cEnveloppe EXCEPT ![pos] = ch]
    /\ cOrigine' = "altere"
    /\ cSortie' = <<>>
    /\ cReponse' = <<>>
    /\ UNCHANGED <<cTexte, horsCodec>>

\* the stored value is some raw text
CodecBrut ==
    /\ cOrigine = "vide"
    /\ \E t \in Bruts : cEnveloppe' = t
    /\ cTexte' = <<>>
    /\ cOrigine' = "brut"
    /\ cSortie' = <<>>
    /\ cReponse' = <<>>
    /\ UNCHANGED horsCodec

\* Decrypt, and the reveal handler on a row holding the stored text
CodecDechiffrer ==
    /\ cOrigine # "vide"
    /\ cSortie = <<>>
    /\ cSortie' = <<dechiffrer(cEnveloppe)>>
    /\ cReponse' = <<RevelerCorps(<<LigneDe(cEnveloppe)>>)>>
    /\ UNCHANGED <<cTexte, cEnveloppe, cOrigine, horsCodec>>

\* the next input is taken
CodecSuivant ==
    /\ cSortie # <<>>
    /\ cTexte' = <<>>
    /\ cEnveloppe' = <<>>
    /\ cOrigine' = "vide"
    /\ cSortie' = <<>>
    /\ cReponse' = <<>>
    /\ UNCHANGED horsCodec

CodecNext ==
    \/ CodecChiffrer
    \/ CodecAlterer
    \/ CodecBrut
    \/ CodecDechiffrer
    \/ CodecSuivant

(***************************************************************************)
(* The application: logins and logouts, the clock, and one request at a    *)
(* time going through verifierToken, verifierPin and its handler.          *)
(***************************************************************************)
\* the secret stored for user u before the server started
SecretInitial(u) == <<58, 48 + u>>

\* the table as an earlier run left it: one record per user
CoffreInitial ==
    {[id |-> u, utilisateur_id |-> u, site_web |-> <<115, u>>, identifiant |-> <<117>>,
      mot_de_passe_crypte |-> chiffrer(SecretInitial(u), CHOOSE iv \in IvPool : TRUE),
      notes |-> <<>>, cree_le |-> 0, modifie_le |-> 0] : u \in Utilisateurs}

CorpsVide == [siteWeb |-> <<>>, identifiant |-> <<>>, motDePasse |-> <<>>, notes |-> <<>>]

\* the bodies of POST / and PUT /:id the model considers
CorpsPossibles ==
    {[siteWeb |-> s, identifiant |-> <<117>>, motDePasse |-> m, notes |-> <<>>] :
        s \in {<<>>, <<115>>}, m \in {<<233, 58>>}}

ReqRepos ==
    [pc |-> "repos", route |-> "lister", token |-> AucunToken, pin |-> <<>>, id |-> 0,
     corps |-> CorpsVide, utilisateur |-> 0, etapes |-> <<>>, rep |-> <<>>]

AppInit ==
    /\ temps = 0
    /\ sessions = {}
    /\ emis = {}
    /\ coffre = CoffreInitial
    /\ prochainId = NbUtilisateurs + 1
    /\ req = ReqRepos

\* POST /connexion of a verified user with the right password: a token is
\* signed and its session row inserted (token is UNIQUE: a second login in
\* the same instant fails on the insert and hands out nothing)
Connexion ==
    \E u \in Utilisateurs :
        /\ Cardinality(emis) < MaxConnexions
        /\ \A s \in sessions : s.token # JwtSign(u, temps)
        /\ sessions' = sessions \cup
               {[utilisateur_id |-> u, token |-> JwtSign(u, temps),
                 expire_le |-> temps + JWT_EXPIRE]}
        /\ emis' = emis \cup {JwtSign(u, temps)}
        /\ UNCHANGED <<temps, coffre, prochainId, req, horsApp>>

\* POST /deconnexion: DELETE FROM sessions WHERE token = $1
Deconnexion ==
    \E token \in emis :
        /\ sessions' = {s \in sessions : s.token # token}
        /\ UNCHANGED <<temps, emis, coffre, prochainId, req, horsApp>>

\* time passes
Horloge ==
    /\ temps < MaxTemps
    /\ temps' = temps + 1
    /\ UNCHANGED <<sessions, emis, coffre, prochainId, req, horsApp>>

\* the tokens a client can present: none, one it was handed, a forged one
TokensPresentables ==
    {AucunToken} \cup emis \cup {JwtForge(u, temps) : u \in Utilisateurs}

PinsPresentables == {<<>>} \cup {PinDe(u) : u \in Utilisateurs}

\* a request enters the router
Recevoir ==
    /\ req.pc = "repos"
    /\ \E route \in Routes, token \in TokensPresentables, pin \in PinsPresentables :
         \E id \in (IF route \in {"reveler", "modifier", "supprimer"}
                    THEN 1..(NbUtilisateurs + 1) ELSE {0}) :
           \E corps \in (IF route \in {"ajouter", "modifier"}
                         THEN CorpsPossibles ELSE {CorpsVide}) :
             req' = [pc |-> "verifierToken", route |-> route, token |-> token,
                     pin |-> pin, id |-> id, corps |-> corps, utilisateur |-> 0,
                     etapes |-> <<>>, rep |-> <<>>]
    /\ UNCHANGED <<temps, sessions, emis, coffre, prochainId, horsApp>>

\* what a middleware leaves in the request: next() hands it to nextPc
ApresMiddleware(m, nom, nomNext, nextPc) ==
    [req EXCEPT !.etapes = @ \o <<nom>> \o m.evts
                           \o (IF m.suite = "next" THEN <<nomNext>> ELSE <<>>),
                !.rep = m.rep,
                !.pc = IF m.suite = "next" THEN nextPc ELSE "fini"]

EtapeVerifierToken ==
    /\ req.pc = "verifierToken"
    /\ \E dbOk \in BOOLEAN :
         LET m == verifierToken(req.token, sessions, temps, dbOk)
             suivant == IF req.route \in RoutesAvecPin THEN "verifierPin" ELSE "handler"
         IN  req' = [ApresMiddleware(m, "verifierToken", "verifierToken.next", suivant)
                        EXCEPT !.utilisateur =
                            IF JwtVerifyOk(req.token, temps) THEN req.token.id ELSE 0]
    /\ UNCHANGED <<temps, sessions, emis, coffre, prochainId, horsApp>>

EtapeVerifierPin ==
    /\ req.pc = "verifierPin"
    /\ \E dbOk \in BOOLEAN :
         req' = ApresMiddleware(verifierPin(req.pin, req.utilisateur, dbOk),
                                "verifierPin", "verifierPin.next", "handler")
    /\ UNCHANGED <<temps, sessions, emis, coffre, prochainId, horsApp>>

\* the handler of the request's route
Handler(route, u, id, corps, iv, dbOk) ==
    CASE route = "ajouter" -> Ajouter(coffre, prochainId, u, corps, iv, temps, dbOk)
      [] route = "lister" -> Lister(coffre, prochainId, u, dbOk)
      [] route = "reveler" -> Reveler(coffre, prochainId, u, id, dbOk)
      [] route = "modifier" -> Modifier(coffre, prochainId, u, id, corps, iv, temps, dbOk)
      [] route = "supprimer" -> Supprimer(coffre, prochainId, u, id, dbOk)
      [] OTHER -> VerifierFuite(coffre, prochainId)

EtapeHandler ==
    /\ req.pc = "handler"
    /\ \E dbOk \in BOOLEAN, iv \in IvPool :
         LET e == Handler(req.route, req.utilisateur, req.id, req.corps, iv, dbOk)
         IN  /\ req' = [req EXCEPT !.etapes = @ \o <<"handler">> \o e.evts,
                                   !.rep = e.rep, !.pc = "fini"]
             /\ coffre' = e.coffre
             /\ prochainId' = e.prochainId
    /\ UNCHANGED <<temps, sessions, emis, horsApp>>

\* the response has been written and the connection goes back to idle
Terminer ==
    /\ req.pc = "fini"
    /\ req' = ReqRepos
    /\ UNCHANGED <<temps, sessions, emis, coffre, prochainId, horsApp>>

AppNext ==
    \/ Connexion
    \/ Deconnexion
    \/ Horloge
    \/ Recevoir
    \/ EtapeVerifierToken
    \/ EtapeVerifierPin
    \/ EtapeHandler
    \/ Terminer

(***************************************************************************)
(* The service: calls to passwordService, one at a time, as its callers    *)
(* and its tests make them.                                                *)
(***************************************************************************)
\* number of rows ever inserted into mots_de_passe
MaxMdp == 2

Secrets == {<<58>>, <<233, 58>>}

DataVide == [site_web |-> <<>>, identifiant |-> <<>>, mot_de_passe |-> <<>>, notes |-> <<>>]

\* the data of the calls to create
CreateDatas ==
    {[site_web |-> <<<<115>>>>, identifiant |-> <<<<117>>>>, mot_de_passe |-> <<s>>,
      notes |-> <<>>] : s \in Secrets}

\* the data of the calls to update: nothing, a new secret, an empty site,
\* a new site with empty notes
UpdateDatas ==
    {DataVide,
     [DataVide EXCEPT !.mot_de_passe = <<<<233, 58>>>>],
     [DataVide EXCEPT !.site_web = <<<<>>>>],
     [DataVide EXCEPT !.site_web = <<<<116>>>>, !.notes = <<<<>>>>]}

AppelRepos == [op |-> "aucun", id |-> 0, utilisateur_id |-> 0, data |-> DataVide, res |-> <<>>]

Appel(op, id, utilisateur_id, data, res) ==
    [op |-> op, id |-> id, utilisateur_id |-> utilisateur_id, data |-> data, res |-> <<res>>]

ServiceInit ==
    /\ mdp = {}
    /\ mdpId = 1
    /\ sAppel = AppelRepos
    /\ clairs = [i \in {} |-> <<>>]

SvcCreate ==
    /\ sAppel.op = "aucun"
    /\ mdpId <= MaxMdp
    /\ \E u \in Utilisateurs, d \in CreateDatas, sel \in Sels, dbOk \in BOOLEAN :
         LET r == create(mdp, mdpId,
                         [utilisateur_id |-> u, site_web |-> d.site_web[1],
                          identifiant |-> d.identifiant[1],
                          mot_de_passe |-> d.mot_de_passe[1], notes |-> d.notes],
                         sel, temps, dbOk)
         IN  /\ mdp' = r.table
             /\ mdpId' = r.prochain
             /\ sAppel' = Appel("create", mdpId, u, d, r.res)
             /\ clairs' = IF r.res.ok
                          THEN [i \in DOMAIN clairs \cup {mdpId} |->
                                   IF i = mdpId THEN d.mot_de_passe[1] ELSE clairs[i]]
                          ELSE clairs
    /\ UNCHANGED <<temps, horsService>>

SvcFindAll ==
    /\ sAppel.op = "aucun"
    /\ \E u \in Utilisateurs, dbOk \in BOOLEAN :
         \E res \in findAll(mdp, u, dbOk) :
             sAppel' = Appel("findAll", 0, u, DataVide, res)
    /\ UNCHANGED <<mdp, mdpId, clairs, temps, horsService>>

SvcFindById ==
    /\ sAppel.op = "aucun"
    /\ \E id \in 1..MaxMdp, u \in Utilisateurs, dbOk \in BOOLEAN :
         sAppel' = Appel("findById", id, u, DataVide, findById(mdp, id, u, dbOk))
    /\ UNCHANGED <<mdp, mdpId, clairs, temps, horsService>>

SvcUpdate ==
    /\ sAppel.op = "aucun"
    /\ \E id \in 1..MaxMdp, u \in Utilisateurs, d \in UpdateDatas, sel \in Sels,
          dbOk \in BOOLEAN :
         LET r == update(mdp, mdpId, id, u, d, sel, temps, dbOk)
         IN  /\ mdp' = r.table
             /\ mdpId' = r.prochain
             /\ sAppel' = Appel("update", id, u, d, r.res)
             /\ clairs' = IF r.res.ok /\ Truthy(d.mot_de_passe)
                          THEN [clairs EXCEPT ![id] = d.mot_de_passe[1]]
                          ELSE clairs
    /\ UNCHANGED <<temps, horsService>>

SvcDelete ==
    /\ sAppel.op = "aucun"
    /\ \E id \in 1..MaxMdp, u \in Utilisateurs, dbOk \in BOOLEAN :
         LET r == delete(mdp, mdpId, id, u, dbOk)
         IN  /\ mdp' = r.table
             /\ mdpId' = r.prochain
             /\ sAppel' = Appel("delete", id, u, DataVide, r.res)
    /\ UNCHANGED <<clairs, temps, horsService>>

\* the caller has its outcome
SvcRetour ==
    /\ sAppel.op # "aucun"
    /\ sAppel' = AppelRepos
    /\ UNCHANGED <<mdp, mdpId, clairs, temps, horsService>>

ServiceNext ==
    \/ SvcCreate
    \/ SvcFindAll
    \/ SvcFindById
    \/ SvcUpdate
    \/ SvcDelete
    \/ SvcRetour

(***************************************************************************)
(* The generator: calls to generateSecurePassword, one at a time.          *)
(***************************************************************************)
\* the arguments of the calls: none, or a length
GenArgs == {<<>>} \cup {<<n>> : n \in 0..MaxLongueur}

GenRepos == [pc |-> "repos", arg |-> <<>>, res |-> <<>>]

GenAppeler ==
    /\ gAppel.pc = "repos"
    /\ \E arg \in GenArgs, graine \in 0..(NbAleas - 1) :
         \E r \in generateSecurePassword(arg, graine) :
            gAppel' = [pc |-> "fini", arg |-> arg, res |-> <<r>>]
    /\ UNCHANGED <<fAppel, eAppel, horsOutils>>

\* the caller has its password
GenRetour ==
    /\ gAppel.pc = "fini"
    /\ gAppel' = GenRepos
    /\ UNCHANGED <<fAppel, eAppel, horsOutils>>

GenNext ==
    \/ GenAppeler
    \/ GenRetour

(***************************************************************************)
(* The strength check: calls to checkPasswordStrength, one at a time.      *)
(***************************************************************************)
\* longest pattern the passwords are made of
MaxMotif == 4

\* longest password checked
MaxForceLen == 13

\* a, A, 0, ! and e acute
ForceChars == {97, 65, 48, 33, 233}

\* 'weak' and 'StrongP@ssw0rd', the passwords of the tests
ExemplesTests ==
    {<<119, 101, 97, 107>>,
     <<83, 116, 114, 111, 110, 103, 80, 64, 115, 115, 119, 48, 114, 100>>}

\* the passwords checked: a pattern repeated up to a length, and the examples
ForcePasswords ==
    LET Motifs == SeqsUpTo(ForceChars, MaxMotif) \ {<<>>}
        Repeter(motif, n) == [i \in 1..n |-> motif[((i - 1) % Len(motif)) + 1]]
    IN  {Repeter(m, n) : m \in Motifs, n \in 0..MaxForceLen} \cup ExemplesTests

ForceRepos == [pc |-> "repos", password |-> <<>>, res |-> <<>>]

ForceAppeler ==
    /\ fAppel.pc = "repos"
    /\ \E password \in ForcePasswords :
         fAppel' = [pc |-> "fini", password |-> password,
                    res |-> <<checkPasswordStrength(password)>>]
    /\ UNCHANGED <<gAppel, eAppel, horsOutils>>

\* the caller has its score
ForceRetour ==
    /\ fAppel.pc = "fini"
    /\ fAppel' = ForceRepos
    /\ UNCHANGED <<gAppel, eAppel, horsOutils>>

ForceNext ==
    \/ ForceAppeler
    \/ ForceRetour

(***************************************************************************)
(* The error handler: errors given to errorHandler, one at a time.         *)
(***************************************************************************)
\* the errors handed to errorHandler, built by the constructors of types and
\* by the libraries
ErreursPossibles ==
    LET MessagesErreur == {"Erreur de base de données", "connect ECONNREFUSED 127.0.0.1:5432"}
        \* the status values the code gives to AppError, and none (the default)
        StatutsAppError == {<<>>, <<400>>, <<401>>, <<403>>, <<404>>, <<500>>}
        DetailsErreur == {<<>>, <<"details">>}
        NewAppError(message, status, details) ==
            ErreurObjet("AppError", message, IF status = <<>> THEN <<500>> ELSE status, details)
        NewValidationError(message, details) ==
            ErreurObjet("ValidationError", message, <<400>>, details)
        NewAuthenticationError(message) == ErreurObjet("AuthenticationError", message, <<401>>, <<>>)
        NewAuthorizationError(message) == ErreurObjet("AuthorizationError", message, <<403>>, <<>>)
        NewNotFoundError(message) == ErreurObjet("NotFoundError", message, <<404>>, <<>>)
        NewError(classe, message) == ErreurObjet(classe, message, <<>>, <<>>)
    IN  {NewAppError(m, s, d) : m \in MessagesErreur, s \in StatutsAppError, d \in DetailsErreur}
            \cup {NewValidationError(m, d) : m \in MessagesErreur, d \in DetailsErreur}
            \cup {NewAuthenticationError(m) : m \in MessagesErreur}
            \cup {NewAuthorizationError(m) : m \in MessagesErreur}
            \cup {NewNotFoundError(m) : m \in MessagesErreur}
            \cup {NewError(c, m) : c \in {"JsonWebTokenError", "TokenExpiredError",
                                          "SyntaxError", "Error"},
                                   m \in MessagesErreur}

\* the values of config.NODE_ENV
Environnements == {"development", "production", "test"}

ErrRepos == [pc |-> "repos", err |-> <<>>, env |-> "development", res |-> <<>>, journal |-> <<>>]

\* express hands an error to errorHandler: it logs it, then answers
ErrTraiter ==
    /\ eAppel.pc = "repos"
    /\ \E err \in ErreursPossibles, env \in Environnements :
         eAppel' = [pc |-> "fini", err |-> <<err>>, env |-> env,
                    res |-> <<errorHandler(err, env)>>,
                    journal |-> <<[error |-> err.message, stack |-> err.stack]>>]
    /\ UNCHANGED <<gAppel, fAppel, horsOutils>>

\* the response is sent
ErrRetour ==
    /\ eAppel.pc = "fini"
    /\ eAppel' = ErrRepos
    /\ UNCHANGED <<gAppel, fAppel, horsOutils>>

ErrNext ==
    \/ ErrTraiter
    \/ ErrRetour

(***************************************************************************)
(* Concurrent updates: two calls to passwordService.update on one record,  *)
(* both awaiting; their UPDATE statements run one after the other, in any  *)
(* order.                                                                  *)
(***************************************************************************)
\* the data of the two calls: those of UpdateDatas, and another secret with
\* another site
ConcDatas ==
    UpdateDatas \cup {[DataVide EXCEPT !.mot_de_passe = <<<<58>>>>, !.site_web = <<<<117>>>>]}

ConcRepos == [pc |-> "repos", id |-> 0, utilisateur_id |-> 0, avant |-> <<>>,
              ordre |-> <<>>, appels |-> <<>>]

\* the record the two calls will update is created
ConcCreer ==
    /\ kEtat.pc = "repos"
    /\ mdp = {}
    /\ \E u \in Utilisateurs, d \in CreateDatas, sel \in Sels :
         LET r == create(mdp, mdpId,
                         [utilisateur_id |-> u, site_web |-> d.site_web[1],
                          identifiant |-> d.identifiant[1],
                          mot_de_passe |-> d.mot_de_passe[1], notes |-> d.notes],
                         sel, temps, TRUE)
         IN  /\ mdp' = r.table
             /\ mdpId' = r.prochain
    /\ UNCHANGED <<kEtat, horsConc>>

\* the owner of a record calls update twice; both calls are awaiting
ConcLancer ==
    /\ kEtat.pc = "repos"
    /\ \E l \in mdp, d1 \in ConcDatas, d2 \in ConcDatas, s1 \in Sels, s2 \in Sels :
         kEtat' = [pc |-> "cours", id |-> l.id, utilisateur_id |-> l.utilisateur_id,
                   avant |-> <<l>>, ordre |-> <<>>,
                   appels |-> <<[pc |-> "attente", data |-> d1, sel |-> s1, res |-> <<>>],
                                [pc |-> "attente", data |-> d2, sel |-> s2, res |-> <<>>]>>]
    /\ UNCHANGED <<mdp, mdpId, horsConc>>

\* one of the calls gets to its statement, which runs as a whole
ConcEnoncer ==
    /\ kEtat.pc = "cours"
    /\ \E p \in 1..2 :
         /\ kEtat.appels[p].pc = "attente"
         /\ LET r == update(mdp, mdpId, kEtat.id, kEtat.utilisateur_id,
                            kEtat.appels[p].data, kEtat.appels[p].sel, temps, TRUE)
            IN  /\ mdp' = r.table
                /\ mdpId' = r.prochain
                /\ kEtat' = [kEtat EXCEPT !.ordre = Append(@, p),
                                          !.appels[p].pc = "fini",
                                          !.appels[p].res = <<r.res>>]
    /\ UNCHANGED horsConc

\* both callers have their outcome
ConcRetour ==
    /\ kEtat.pc = "cours"
    /\ Len(kEtat.ordre) = 2
    /\ kEtat' = ConcRepos
    /\ UNCHANGED <<mdp, mdpId, horsConc>>

ConcNext ==
    \/ ConcCreer
    \/ ConcLancer
    \/ ConcEnoncer
    \/ ConcRetour

(***************************************************************************)
(* Process start: config is loaded, then routes/motsDePasse.js, whose      *)
(* first statements derive ENCRYPTION_KEY from config.JWT_SECRET.          *)
(***************************************************************************)
\* 'votre_secret_jwt', the default of config.ts
SECRET_DEFAUT ==
    <<118, 111, 116, 114, 101, 95, 115, 101, 99, 114, 101, 116, 95, 106, 119, 116>>

\* process.env.JWT_SECRET: unset, '', or a secret
EnvSecrets == {<<>>, <<<<>>>>, <<JWT_SECRET>>, <<<<107>>>>}

\* config.JWT_SECRET as the module that require('../config/config') resolves
\* to computes it; <<>> is undefined
ConfigJwtSecret(module, env) ==
    IF module = "config.js" THEN env
    ELSE IF Truthy(env) THEN env ELSE <<SECRET_DEFAUT>>

\* const ENCRYPTION_KEY = crypto.scryptSync(config.JWT_SECRET, 'sel', 32):
\* scryptSync throws a TypeError on undefined and accepts every string
DeriverCle(secret) ==
    IF secret = <<>> THEN Erreur("TypeError")
    ELSE Retour(ScryptSync(secret[1], <<115, 101, 108>>, KEY_LENGTH))

DemRepos == [pc |-> "arrete", env |-> <<>>, module |-> "config.js", cle |-> <<>>,
             enveloppe |-> <<>>]

\* the process starts: the modules are loaded
DemCharger ==
    /\ dEtat.pc = "arrete"
    /\ \E env \in EnvSecrets, module \in {"config.js", "config.ts"} :
         LET r == DeriverCle(ConfigJwtSecret(module, env))
         IN  dEtat' = [pc |-> IF r.ok THEN "pret" ELSE "echec",
                       env |-> env, module |-> module,
                       cle |-> IF r.ok THEN <<r.valeur>> ELSE <<>>,
                       enveloppe |-> <<>>]
    /\ UNCHANGED horsDem

\* the running process encrypts a text with its key, as chiffrer does
DemChiffrer ==
    /\ dEtat.pc = "pret"
    /\ \E texte \in Textes, iv \in IvPool :
         LET chiffre == GcmCrypt(dEtat.cle[1], iv, Utf8Encode(texte))
             tag == GcmTag(dEtat.cle[1], iv, chiffre)
         IN  dEtat' = [dEtat EXCEPT !.enveloppe =
                          <<HexEncode(iv) \o <<":">> \o HexEncode(chiffre)
                              \o <<":">> \o HexEncode(tag)>>]
    /\ UNCHANGED horsDem

\* the process ends, or has not started
DemArreter ==
    /\ dEtat.pc # "arrete"
    /\ dEtat' = DemRepos
    /\ UNCHANGED horsDem

DemNext ==
    \/ DemCharger
    \/ DemChiffrer
    \/ DemArreter

(***************************************************************************)
(* The accounts: calls to authService, one at a time.                      *)
(***************************************************************************)
\* number of rows ever inserted into tokens_verification
MaxJetons == 2

AuthEmails == {"a@x.fr", "b@x.fr"}

AuthAppelRepos == [op |-> "aucun", email |-> "", token |-> <<>>, res |-> <<>>]

\* verifOk: the users a call to verifyEmail has resolved for; verifMaj: the
\* users whose row a call presenting one of their unexpired email tokens has
\* updated
AuthRepos == [utilisateurs |-> {}, jetons |-> {}, prochainU |-> 1, prochainJ |-> 1,
              verifOk |-> {}, verifMaj |-> {}, appel |-> AuthAppelRepos]

AuthAppel(op, email, token, res) == [op |-> op, email |-> email, token |-> token, res |-> <<res>>]

\* register: SELECT by email, INSERT of the user (est_verifie false), INSERT
\* of an email token, sending of the email
AuthRegister ==
    /\ aEtat.appel.op = "aucun"
    /\ aEtat.prochainJ <= MaxJetons
    /\ \E email \in AuthEmails, secret \in Secrets, sel \in Sels, panne \in 0..4 :
         LET user == [id |-> aEtat.prochainU, email |-> email,
                      mot_de_passe_hash |-> BcryptHash(secret, sel), est_verifie |-> FALSE]
             jeton == [id |-> aEtat.prochainJ, utilisateur_id |-> user.id,
                       token |-> aEtat.prochainJ, type |-> "email",
                       expire_le |-> temps + DUREE_JETON_EMAIL]
             pris == \E u \in aEtat.utilisateurs : u.email = email
             insereU == panne \notin {1, 2} /\ ~pris
             insereJ == insereU /\ panne # 3
         IN  aEtat' = [aEtat EXCEPT
                 !.utilisateurs = IF insereU THEN @ \cup {user} ELSE @,
                 !.prochainU = IF insereU THEN @ + 1 ELSE @,
                 !.jetons = IF insereJ THEN @ \cup {jeton} ELSE @,
                 !.prochainJ = IF insereJ THEN @ + 1 ELSE @,
                 !.appel = AuthAppel("register", email, <<>>,
                              IF panne = 1 THEN Rejete(500, <<"db.erreur">>)
                              ELSE IF pris THEN Rejete(400, <<"select">>)
                              ELSE IF panne = 0 THEN Resolu(<<user.id>>, <<"select", "insert", "jeton", "email">>)
                              ELSE Rejete(500, <<"select", "db.erreur">>))]
    /\ UNCHANGED <<temps, horsAuth>>

AuthLogin ==
    /\ aEtat.appel.op = "aucun"
    /\ \E email \in AuthEmails, secret \in Secrets, panne \in 0..1 :
         aEtat' = [aEtat EXCEPT !.appel =
                      AuthAppel("login", email, <<>>,
                                login(aEtat.utilisateurs,
                                      [email |-> email, mot_de_passe |-> secret],
                                      temps, panne))]
    /\ UNCHANGED <<temps, horsAuth>>

AuthVerifyEmail ==
    /\ aEtat.appel.op = "aucun"
    /\ \E token \in 1..MaxJetons, panne \in 0..3 :
         LET r == verifyEmail(aEtat.utilisateurs, aEtat.jetons, token, temps, panne)
         IN  aEtat' = [aEtat EXCEPT
                 !.utilisateurs = r.utilisateurs,
                 !.jetons = r.jetons,
                 !.verifOk = IF r.res.ok
                             THEN @ \cup {j.utilisateur_id : j \in aEtat.jetons \ r.jetons}
                             ELSE @,
                 !.verifMaj = IF \E i \in 1..Len(r.res.evts) : r.res.evts[i] = "update"
                              THEN @ \cup {j.utilisateur_id :
                                              j \in {k \in aEtat.jetons :
                                                        /\ k.token = token
                                                        /\ k.type = "email"
                                                        /\ k.expire_le >= temps}}
                              ELSE @,
                 !.appel = AuthAppel("verifyEmail", "", <<token>>, r.res)]
    /\ UNCHANGED <<temps, horsAuth>>

\* requestPasswordReset: SELECT by email, INSERT of a reset token, sending of
\* the email
AuthRequestPasswordReset ==
    /\ aEtat.appel.op = "aucun"
    /\ aEtat.prochainJ <= MaxJetons
    /\ \E email \in AuthEmails, panne \in 0..3 :
         LET rows == {u \in aEtat.utilisateurs : u.email = email}
             jeton == [id |-> aEtat.prochainJ,
                       utilisateur_id |-> (CHOOSE u \in rows : TRUE).id,
                       token |-> aEtat.prochainJ, type |-> "reset_password",
                       expire_le |-> temps + DUREE_JETON_RESET]
             insere == panne \notin {1, 2} /\ rows # {}
         IN  aEtat' = [aEtat EXCEPT
                 !.jetons = IF insere THEN @ \cup {jeton} ELSE @,
                 !.prochainJ = IF insere THEN @ + 1 ELSE @,
                 !.appel = AuthAppel("requestPasswordReset", email, <<>>,
                              IF panne = 1 THEN Rejete(500, <<"db.erreur">>)
                              ELSE IF rows = {} THEN Rejete(404, <<"select">>)
                              ELSE IF panne = 0 THEN Resolu(<<>>, <<"select", "jeton", "email">>)
                              ELSE Rejete(500, <<"select", "db.erreur">>))]
    /\ UNCHANGED <<temps, horsAuth>>

\* POST /reset-password: the body holds email and nouveauMotDePasse
AuthResetPassword ==
    /\ aEtat.appel.op = "aucun"
    /\ \E email \in AuthEmails, secret \in Secrets, sel \in Sels, panne \in 0..2 :
         LET r == resetPassword(aEtat.utilisateurs, aEtat.jetons,
                                [email |-> email, nouveauMotDePasse |-> secret], sel, panne)
         IN  aEtat' = [aEtat EXCEPT
                 !.utilisateurs = r.utilisateurs,
                 !.jetons = r.jetons,
                 !.appel = AuthAppel("resetPassword", email, <<>>, r.res)]
    /\ UNCHANGED <<temps, horsAuth>>

\* time passes, up to the expiry of every token
AuthHorloge ==
    /\ temps < MaxTemps + 1
    /\ temps' = temps + 1
    /\ UNCHANGED <<aEtat, horsAuth>>

\* the caller has its outcome
AuthRetour ==
    /\ aEtat.appel.op # "aucun"
    /\ aEtat' = [aEtat EXCEPT !.appel = AuthAppelRepos]
    /\ UNCHANGED <<temps, horsAuth>>

AuthNext ==
    \/ AuthRegister
    \/ AuthLogin
    \/ AuthVerifyEmail
    \/ AuthRequestPasswordReset
    \/ AuthResetPassword
    \/ AuthHorloge
    \/ AuthRetour

(***************************************************************************)
(* db.transaction: one action per statement it awaits.                     *)
(***************************************************************************)
TaillePool == 1

\* the callers of db.transaction
Transactions == {"t1", "t2"}

\* what the callback does with the client: it resolves with a value or
\* rejects with an error of its own
Callbacks ==
    [issue : {"resout"}, val : {"ligne 1", "ligne 2"}] \cup
    [issue : {"rejette"}, val : {"Query error", "NotFoundError"}]

TxRepos == [pc |-> "repos", module |-> "db.ts", cb |-> <<>>, journal |-> <<>>,
            relaches |-> 0, erreur |-> <<>>, result |-> <<>>, issue |-> <<>>,
            logs |-> <<>>]

TransactionRepos == [libres |-> TaillePool, tx |-> [t \in Transactions |-> TxRepos]]

\* db.transaction(callback) is called
TxAppeler(t) ==
    /\ tEtat.tx[t].pc = "repos"
    /\ \E module \in {"db.ts", "db.js"}, callback \in Callbacks :
         tEtat' = [tEtat EXCEPT !.tx[t] = [TxRepos EXCEPT !.pc = "connect",
                                                          !.module = module,
                                                          !.cb = <<callback>>]]
    /\ UNCHANGED horsTx

\* const client = await pool.connect(), outside the try: a client of the
\* pool when one is free, or the rejection of connect
TxConnect(t) ==
    /\ tEtat.tx[t].pc = "connect"
    /\ \/ /\ tEtat.libres > 0
          /\ tEtat' = [tEtat EXCEPT !.libres = @ - 1, !.tx[t].pc = "BEGIN"]
       \/ tEtat' = [tEtat EXCEPT !.tx[t].pc = "fini",
                                 !.tx[t].issue = <<[ok |-> FALSE, val |-> "connect"]>>]
    /\ UNCHANGED horsTx

\* await client.query('BEGIN'): it resolves and the callback is next, or it
\* rejects and the catch block takes its error
TxBegin(t) ==
    /\ tEtat.tx[t].pc = "BEGIN"
    /\ \E rejet \in BOOLEAN :
         tEtat' = [tEtat EXCEPT
             !.tx[t].journal = Append(@, "BEGIN"),
             !.tx[t].pc = IF rejet THEN "ROLLBACK" ELSE "callback",
             !.tx[t].erreur = IF rejet THEN <<"BEGIN">> ELSE @]
    /\ UNCHANGED horsTx

\* const result = await callback(client)
TxCallback(t) ==
    /\ tEtat.tx[t].pc = "callback"
    /\ LET cb == tEtat.tx[t].cb[1]
       IN  tEtat' = [tEtat EXCEPT
               !.tx[t].journal = Append(@, "callback"),
               !.tx[t].pc = IF cb.issue = "resout" THEN "COMMIT" ELSE "ROLLBACK",
               !.tx[t].result = IF cb.issue = "resout" THEN <<cb.val>> ELSE @,
               !.tx[t].erreur = IF cb.issue = "resout" THEN @ ELSE <<cb.val>>]
    /\ UNCHANGED horsTx

\* await client.query('COMMIT'); return result
TxCommit(t) ==
    /\ tEtat.tx[t].pc = "COMMIT"
    /\ \E rejet \in BOOLEAN :
         tEtat' = [tEtat EXCEPT
             !.tx[t].journal = Append(@, "COMMIT"),
             !.tx[t].pc = IF rejet THEN "ROLLBACK" ELSE "finally",
             !.tx[t].erreur = IF rejet THEN <<"COMMIT">> ELSE @,
             !.tx[t].issue = IF rejet THEN @
                             ELSE <<[ok |-> TRUE, val |-> tEtat.tx[t].result[1]]>>]
    /\ UNCHANGED horsTx

\* catch (error) { await client.query('ROLLBACK'); ...; throw error }: a
\* rejection of the ROLLBACK leaves the catch block with its own error
TxRollback(t) ==
    /\ tEtat.tx[t].pc = "ROLLBACK"
    /\ \E rejet \in BOOLEAN :
         tEtat' = [tEtat EXCEPT
             !.tx[t].journal = Append(@, "ROLLBACK"),
             !.tx[t].pc = "finally",
             !.tx[t].logs = IF ~rejet /\ tEtat.tx[t].module = "db.ts"
                            THEN Append(@, "transaction_error") ELSE @,
             !.tx[t].issue = IF rejet THEN <<[ok |-> FALSE, val |-> "ROLLBACK"]>>
                             ELSE <<[ok |-> FALSE, val |-> tEtat.tx[t].erreur[1]]>>]
    /\ UNCHANGED horsTx

\* finally { client.release() }
TxFinally(t) ==
    /\ tEtat.tx[t].pc = "finally"
    /\ tEtat' = [tEtat EXCEPT !.libres = @ + 1,
                              !.tx[t].relaches = @ + 1,
                              !.tx[t].pc = "fini"]
    /\ UNCHANGED horsTx

\* the caller has the outcome
TxRetour(t) ==
    /\ tEtat.tx[t].pc = "fini"
    /\ tEtat' = [tEtat EXCEPT !.tx[t] = TxRepos]
    /\ UNCHANGED horsTx

TransactionNext ==
    \E t \in Transactions :
        \/ TxAppeler(t)
        \/ TxConnect(t)
        \/ TxBegin(t)
        \/ TxCallback(t)
        \/ TxCommit(t)
        \/ TxRollback(t)
        \/ TxFinally(t)
        \/ TxRetour(t)

(***************************************************************************)
(* throttle(func, waitFor): the wrapper, its timer and the clock.          *)
(***************************************************************************)
MaxAttente == 2
MaxDuree == 4

\* Date.now() when the wrapper is built: further from 0 than any waitFor
Epoque == MaxAttente + 1

\* the closure of the wrapper (waitFor, timeout, lastCall), the clock and
\* the times at which func has been invoked
ThrottleRepos == [cree |-> FALSE, waitFor |-> 1, now |-> Epoque, lastCall |-> 0,
                  timeout |-> <<>>, invocations |-> <<>>]

\* throttle(func, waitFor)
ThrCreer ==
    /\ ~hEtat.cree
    /\ \E waitFor \in 1..MaxAttente :
         hEtat' = [hEtat EXCEPT !.cree = TRUE, !.waitFor = waitFor]
    /\ UNCHANGED horsThrottle

\* a call to the wrapper
ThrAppeler ==
    /\ hEtat.cree
    /\ LET timeSinceLastCall == hEtat.now - hEtat.lastCall
       IN  hEtat' =
             IF timeSinceLastCall >= hEtat.waitFor
             THEN [hEtat EXCEPT !.invocations = Append(@, hEtat.now),
                                !.lastCall = hEtat.now]
             ELSE IF hEtat.timeout = <<>>
             THEN [hEtat EXCEPT !.timeout =
                                   <<hEtat.now + (hEtat.waitFor - timeSinceLastCall)>>]
             ELSE hEtat
    /\ UNCHANGED horsThrottle

\* the callback of setTimeout runs, at its due time or later
ThrTimer ==
    /\ hEtat.timeout # <<>>
    /\ hEtat.now >= hEtat.timeout[1]
    /\ hEtat' = [hEtat EXCEPT !.invocations = Append(@, hEtat.now),
                              !.lastCall = hEtat.now,
                              !.timeout = <<>>]
    /\ UNCHANGED horsThrottle

\* a millisecond passes
ThrTemps ==
    /\ hEtat.now < Epoque + MaxDuree
    /\ hEtat' = [hEtat EXCEPT !.now = @ + 1]
    /\ UNCHANGED horsThrottle

ThrottleNext ==
    \/ ThrCreer
    \/ ThrAppeler
    \/ ThrTimer
    \/ ThrTemps

(***************************************************************************)
(* Specifications.                                                         *)
(***************************************************************************)
vars == <<codecVars, appVars, svcVars, outilVars, suiteVars>>

\* the state after construction: every part idle
Init ==
    /\ CodecInit
    /\ AppInit
    /\ ServiceInit
    /\ gAppel = GenRepos
    /\ fAppel = ForceRepos
    /\ eAppel = ErrRepos
    /\ kEtat = ConcRepos
    /\ dEtat = DemRepos
    /\ aEtat = AuthRepos
    /\ tEtat = TransactionRepos
    /\ hEtat = ThrottleRepos

\* the application: gate and vault routes
Spec == Init /\ [][AppNext]_vars

\* the codec on bounded inputs
SpecCodec == Init /\ [][CodecNext]_vars

\* passwordService on bounded inputs
SpecService == Init /\ [][ServiceNext]_vars

\* generateSecurePassword on bounded inputs
SpecGenerateur == Init /\ [][GenNext]_vars

\* checkPasswordStrength on bounded inputs
SpecForce == Init /\ [][ForceNext]_vars

\* errorHandler on the errors the application raises
SpecErreurs == Init /\ [][ErrNext]_vars

\* two concurrent updates of one record
SpecConcurrent == Init /\ [][ConcNext]_vars

\* the start of the process and its key
SpecDemarrage == Init /\ [][DemNext]_vars

\* authService on bounded inputs
SpecAuth == Init /\ [][AuthNext]_vars

\* db.transaction on a pool shared by concurrent callers
SpecTransaction == Init /\ [][TransactionNext]_vars

\* a throttled function, its callers and its timer
SpecThrottle == Init /\ [][ThrottleNext]_vars

(***************************************************************************)
(* The access gate.                                                        *)
(***************************************************************************)
\* e occurs in the sequence s
Dans(e, s) == \E i \in 1..Len(s) : s[i] = e

EvtsSession == {"verifierToken", "jwt.verify", "sessions.select", "db.erreur"}
EvtsCodec == {"chiffrer", "dechiffrer"}
EvtsCoffre == {"coffre.insert", "coffre.select", "coffre.update", "coffre.delete"}

\* the request made no call to the codec and ran no statement on the table
SansCodecNiCoffre == \A i \in 1..Len(req.etapes) : req.etapes[i] \notin EvtsCodec \cup EvtsCoffre

\* the token of the request is missing, was never issued, or has no
\* unexpired session row
TokenRefusable ==
    \/ req.token = AucunToken
    \/ req.token \notin emis
    \/ ~\E s \in sessions : s.token = req.token /\ s.expire_le > temps

\* C1: on every vault route, the session check ends a request whose token is
\* missing, invalid or without an unexpired session row with a 401; the
\* request has then run nothing but the session check (no PIN check, no
\* codec call, no statement on the credential table), whatever PIN it
\* carries, and an ended request runs nothing more.
C1_GateOrdering ==
    [][ /\ (req.pc = "verifierToken" /\ req'.pc # "verifierToken" /\ TokenRefusable)
            => /\ req'.pc = "fini"
               /\ req'.rep = <<Reponse(401, <<>>)>>
               /\ \A i \in 1..Len(req'.etapes) : req'.etapes[i] \in EvtsSession
        /\ (req.pc = "fini") => (req' = req \/ req' = ReqRepos) ]_vars

\* a PIN-gated request with a logged-out or expired token and the right PIN
\* of the token's user has been answered 401
C1_Witness ==
    /\ req.pc = "fini"
    /\ req.route = "reveler"
    /\ req.token \in emis
    /\ req.pin = PinDe(req.token.id)
    /\ req.rep = <<Reponse(401, <<>>)>>
    /\ ~Dans("verifierToken.next", req.etapes)

AuthentifieSansPanne ==
    /\ req.pc = "fini"
    /\ req.route \in RoutesAvecPin
    /\ Dans("verifierToken.next", req.etapes)
    /\ ~Dans("db.erreur", req.etapes)

\* C3: on every PIN-gated route (add, reveal, update, delete) a request with
\* a valid unexpired session and the right PIN of its user passes the PIN
\* check and its handler is executed.
C3_CorrectPinReachesOperation ==
    (AuthentifieSansPanne /\ req.pin = PinDe(req.utilisateur))
        => /\ Dans("verifierPin.next", req.etapes)
           /\ Dans("handler", req.etapes)

\* C4: an authenticated request to a PIN-gated route is answered 400 when it
\* carries no PIN and 401 when its PIN is not its user's; either way it made
\* no codec call and ran no statement on the credential table.
C4_PinStageOutcomes ==
    /\ (AuthentifieSansPanne /\ req.pin = <<>>)
        => (req.rep = <<Reponse(400, <<>>)>> /\ SansCodecNiCoffre)
    /\ (AuthentifieSansPanne /\ req.pin # <<>> /\ req.pin # PinDe(req.utilisateur))
        => (req.rep = <<Reponse(401, <<>>)>> /\ SansCodecNiCoffre)


(***************************************************************************)
(* The vault's records.                                                    *)
(***************************************************************************)
\* C5: a record read back by its owner gives exactly the secret the owner
\* last had stored under its id: the one given to create, or the one given
\* to the last update of the secret.
C5_LosslessRecovery ==
    (sAppel.op = "findById" /\ sAppel.res[1].ok)
        => sAppel.res[1].lignes[1].mot_de_passe_crypte = clairs[sAppel.id]

(***************************************************************************)
(* Claims on the codec, checked under SpecCodec.                           *)
(***************************************************************************)
\* the three segments of an envelope are hexadecimal, of the lengths of an
\* iv, of the ciphertext and of a tag
EnvelopeShape(env) ==
    LET parts == Split(env, ":")
    IN  /\ Len(parts) = 3
        /\ \A k \in 1..3 : \A i \in 1..Len(parts[k]) : parts[k][i] \in LowerHex
        /\ Len(parts[1]) = 2 * IV_LENGTH
        /\ Len(parts[3]) = 2 * TAG_LENGTH

\* C6 (as stated): for every string s, including the empty string and
\* strings containing colons, Decrypt(Encrypt(s)) = s, and the envelope has
\* exactly three colon-separated hexadecimal segments nonce:ciphertext:tag.
C6_RoundTripEveryString ==
    cOrigine = "chiffrer" =>
        /\ EnvelopeShape(cEnveloppe)
        /\ cSortie # <<>> => cSortie[1] = Retour(cTexte)

\* C6 (amended): for every string s in which every surrogate code unit is
\* part of a pair (the empty string and strings containing colons included),
\* Decrypt(Encrypt(s)) = s; for every string s the envelope has exactly
\* three colon-separated hexadecimal segments nonce:ciphertext:tag.
C6_RoundTripWellFormed ==
    cOrigine = "chiffrer" =>
        /\ EnvelopeShape(cEnveloppe)
        /\ (cSortie # <<>> /\ WellFormed(cTexte)) => cSortie[1] = Retour(cTexte)

\* a plaintext holding a colon and a non-ASCII character has been encrypted
\* and decrypted back
C6_Witness ==
    /\ cOrigine = "chiffrer"
    /\ cTexte = <<58, 233>>
    /\ cSortie = <<Retour(cTexte)>>

\* C7: for every valid envelope, replacing one hexadecimal digit of its
\* ciphertext segment or of its tag segment by another makes Decrypt fail
\* with the decryption (authentication) error; no plaintext is returned, and
\* the reveal handler answers 500 with no secret.
C7_TamperFailsClosed ==
    (cOrigine = "altere" /\ cSortie # <<>>) =>
        /\ cSortie[1] = Erreur("AuthenticationFailed")
        /\ cReponse = <<Reponse(500, <<>>)>>

\* an altered envelope has been given to Decrypt and to the reveal handler
C7_Witness ==
    /\ cOrigine = "altere"
    /\ cSortie # <<>>
    /\ cReponse # <<>>
    /\ cTexte # <<>>

\* C8: Decrypt of a text with fewer than three colon-separated segments
\* fails with the malformed-input error (a TypeError on the missing segment),
\* which is not the decryption error, and returns no plaintext.
C8_MalformedEnvelope ==
    (cOrigine = "brut" /\ Len(Split(cEnveloppe, ":")) < 3 /\ cSortie # <<>>) =>
        /\ ~cSortie[1].ok
        /\ cSortie[1].erreur = "TypeError"
        /\ cSortie[1] # Erreur("AuthenticationFailed")
        /\ cReponse[1].corps = <<>>

\* a text without any separator, and not hexadecimal, has been given to Decrypt
C8_Witness ==
    /\ cOrigine = "brut"
    /\ cEnveloppe = <<"z", "a", "z">>
    /\ cSortie # <<>>

(***************************************************************************)
(* Isolation between owners.                                               *)
(***************************************************************************)
\* the outcome of findById for an id that does not exist
NonTrouve == Rejete(404, <<"db.query">>)

\* findById has answered and its statement did not fail
FindByIdRepondu ==
    /\ sAppel.op = "findById"
    /\ ~Dans("db.erreur", sAppel.res[1].evts)

\* C10: findById(id, B) of a record created under another owner A rejects
\* with 404 and gives no row, so no field of A's record, and its outcome is
\* the very outcome of findById for an id no record has.
C10_CrossOwnerReadIsolation ==
    /\ (FindByIdRepondu /\ \E l \in mdp : l.id = sAppel.id
                                          /\ l.utilisateur_id # sAppel.utilisateur_id)
        => sAppel.res = <<NonTrouve>>
    /\ (FindByIdRepondu /\ ~\E l \in mdp : l.id = sAppel.id)
        => sAppel.res = <<NonTrouve>>

\* findById has answered a user asking for a record another user created
C10_Witness ==
    /\ FindByIdRepondu
    /\ \E l \in mdp : l.id = sAppel.id /\ l.utilisateur_id # sAppel.utilisateur_id
    /\ sAppel.res[1].status = 404

\* the step is a call of op in ops, answered without a failure of the database
AppelDe(ops) ==
    /\ sAppel.op = "aucun"
    /\ sAppel'.op \in ops
    /\ ~Dans("db.erreur", sAppel'.res[1].evts)

\* the data of an update names a field the statement will set
ChampFourni(data) ==
    \/ Truthy(data.site_web)
    \/ Truthy(data.identifiant)
    \/ Truthy(data.mot_de_passe)
    \/ data.notes # <<>>

\* the record the call is about exists and belongs to another user
AutreProprietaire(appel) ==
    \E l \in mdp : l.id = appel.id /\ l.utilisateur_id # appel.utilisateur_id

\* C11: update(id, B, fields) and delete(id, B) on a record created under
\* another owner A reject with 404 (never 403) and leave the table, A's
\* record and every other record, as it was.
C11_CrossOwnerMutationIsolation ==
    [][ (AppelDe({"update", "delete"}) /\ AutreProprietaire(sAppel'))
            => /\ mdp' = mdp
               /\ ~sAppel'.res[1].ok
               /\ sAppel'.res[1].status # 403
               /\ (sAppel'.op = "delete" \/ ChampFourni(sAppel'.data))
                      => sAppel'.res[1].status = 404 ]_vars

\* an update with a new secret, by a user who does not own the record, has
\* been rejected while the table holds two records
C11_Witness ==
    /\ sAppel.op = "update"
    /\ Truthy(sAppel.data.mot_de_passe)
    /\ AutreProprietaire(sAppel)
    /\ sAppel.res[1].status = 404
    /\ Cardinality(mdp) = 2

(***************************************************************************)
(* Listing.                                                                *)
(***************************************************************************)
\* C12: the answer of the listing route holds only records of the user the
\* session token names, no row of it carries a decrypted secret, and the
\* request never calls dechiffrer.
C12_ListingNeverLeaks ==
    req.route = "lister" =>
        /\ ~Dans("dechiffrer", req.etapes)
        /\ \A i \in 1..Len(req.rep) : \A j \in 1..Len(req.rep[i].corps) :
               /\ "mot_de_passe" \notin DOMAIN req.rep[i].corps[j]
               /\ \E l \in coffre : /\ l.id = req.rep[i].corps[j].id
                                    /\ l.utilisateur_id = req.utilisateur
                                    /\ req.utilisateur = req.token.id

\* a user has listed their records while the table holds another user's
C12_Witness ==
    /\ req.pc = "fini"
    /\ req.route = "lister"
    /\ req.rep # <<>>
    /\ req.rep[1].status = 200
    /\ Len(req.rep[1].corps) > 0
    /\ \E l \in coffre : l.utilisateur_id # req.utilisateur

(***************************************************************************)
(* Updates and deletes of the service.                                     *)
(***************************************************************************)
\* C13: update(id, owner, {}) rejects with 400 having run no statement and
\* made no hash call, and the table is as it was.
C13_UpdateNoFieldsRejected ==
    [][ (sAppel.op = "aucun" /\ sAppel'.op = "update" /\ sAppel'.data = DataVide)
            => /\ sAppel'.res = <<Rejete(400, <<>>)>>
               /\ mdp' = mdp ]_vars

\* the owner of an existing record has called update on it with no field
C13_Witness ==
    /\ sAppel.op = "update"
    /\ sAppel.data = DataVide
    /\ \E l \in mdp : l.id = sAppel.id /\ l.utilisateur_id = sAppel.utilisateur_id
    /\ sAppel.res[1].status = 400

\* the rows the call is about: its id under its owner
LignesVisees(appel) ==
    {l \in mdp : l.id = appel.id /\ l.utilisateur_id = appel.utilisateur_id}

\* C14: delete(id, owner) on an existing record of that owner resolves and
\* removes exactly that record; a deleted id never comes back; findById,
\* update (naming a field) and delete for an (id, owner) that has no record
\* reject with 404 and leave the table as it was.
C14_DeleteIsFinal ==
    [][ /\ (AppelDe({"delete"}) /\ LignesVisees(sAppel') # {})
            => /\ sAppel'.res[1].ok
               /\ mdp' = mdp \ LignesVisees(sAppel')
               /\ Cardinality(mdp') = Cardinality(mdp) - 1
        /\ (/\ AppelDe({"findById", "update", "delete"})
            /\ LignesVisees(sAppel') = {}
            /\ (sAppel'.op = "update" => ChampFourni(sAppel'.data)))
            => /\ sAppel'.res[1].status = 404
               /\ ~sAppel'.res[1].ok
               /\ mdp' = mdp
        /\ \A i \in 1..MaxMdp :
               (i < mdpId /\ ~\E l \in mdp : l.id = i) => ~\E l \in mdp' : l.id = i
      ]_vars

\* a record has been deleted, another remains, and a later findById for the
\* deleted id has been rejected
C14_Witness ==
    /\ sAppel.op = "findById"
    /\ sAppel.id < mdpId
    /\ ~\E l \in mdp : l.id = sAppel.id
    /\ mdp # {}
    /\ sAppel.res[1].status = 404

\* C15: an update that succeeds changes one record, the one it names; it
\* replaces the stored secret only when the data holds a new secret, and
\* each of site_web, identifiant, notes and the stored secret that the data
\* does not hold keeps its value; every other record is as it was.
C15_PartialUpdateFrame ==
    [][ (AppelDe({"update"}) /\ sAppel'.res[1].ok)
            => \E avant \in mdp, apres \in mdp' :
                   /\ avant.id = sAppel'.id
                   /\ apres.id = sAppel'.id
                   /\ mdp' \ {apres} = mdp \ {avant}
                   /\ sAppel'.res[1].lignes = <<apres>>
                   /\ sAppel'.data.mot_de_passe = <<>>
                          => apres.mot_de_passe_crypte = avant.mot_de_passe_crypte
                   /\ sAppel'.data.site_web = <<>> => apres.site_web = avant.site_web
                   /\ sAppel'.data.identifiant = <<>>
                          => apres.identifiant = avant.identifiant
                   /\ sAppel'.data.notes = <<>> => apres.notes = avant.notes ]_vars

\* a record whose secret was replaced by one update has had its site and
\* notes replaced by another, which left the new secret in place
C15_Witness ==
    /\ sAppel.op = "update"
    /\ sAppel.res[1].ok
    /\ sAppel.data.mot_de_passe = <<>>
    /\ sAppel.data.site_web = <<<<116>>>>
    /\ sAppel.res[1].lignes[1].site_web = <<116>>
    /\ \E sel \in Sels :
           sAppel.res[1].lignes[1].mot_de_passe_crypte = BcryptHash(<<233, 58>>, sel)
    /\ clairs[sAppel.id] = <<233, 58>>
    /\ Cardinality(mdp) = 2

(***************************************************************************)
(* Claims about generateSecurePassword.                                    *)
(***************************************************************************)
GenFini == gAppel.pc = "fini"

\* the call asked for at least four characters, explicitly or by default
LongueurSuffisante == LongueurDe(gAppel.arg) >= 4

UnDeChaqueClasse(password) ==
    /\ \E i \in 1..Len(password) : password[i] >= 97 /\ password[i] <= 122
    /\ \E i \in 1..Len(password) : password[i] >= 65 /\ password[i] <= 90
    /\ \E i \in 1..Len(password) : password[i] >= 48 /\ password[i] <= 57
    /\ \E i \in 1..Len(password) :
          /\ ~(password[i] >= 97 /\ password[i] <= 122)
          /\ ~(password[i] >= 65 /\ password[i] <= 90)
          /\ ~(password[i] >= 48 /\ password[i] <= 57)

\* C16: a call to generateSecurePassword for a length n >= 4 (16 when the
\* argument is omitted) returns a string of exactly n characters holding at
\* least one lowercase letter, one uppercase letter, one digit and one symbol.
C16_GeneratedPasswordConstraints ==
    (GenFini /\ LongueurSuffisante) =>
        /\ gAppel.res[1].ok
        /\ Len(gAppel.res[1].valeur) = LongueurDe(gAppel.arg)
        /\ UnDeChaqueClasse(gAppel.res[1].valeur)

\* a call without argument has returned sixteen characters of all four classes,
\* the first of them drawn by the completion loop
C16_Witness ==
    /\ GenFini
    /\ gAppel.arg = <<>>
    /\ gAppel.res[1].ok
    /\ Len(gAppel.res[1].valeur) = 16
    /\ UnDeChaqueClasse(gAppel.res[1].valeur)
    /\ gAppel.res[1].valeur[1] \in {allChars[i] : i \in 1..Len(allChars)}

\* C17: a call to generateSecurePassword for a length below 4 is rejected
\* and returns no password.
C17_ShortLengthRejected ==
    (GenFini /\ ~LongueurSuffisante) => ~gAppel.res[1].ok

(***************************************************************************)
(* Claims about checkPasswordStrength.                                     *)
(***************************************************************************)
ForceFini == fAppel.pc = "fini"

\* the criteria the checked password satisfies
CriteresTenus ==
    LET p == fAppel.password
    IN  {c \in {"longueur8", "majuscule", "minuscule", "chiffre", "special", "longueur12"} :
            \/ c = "longueur8" /\ Len(p) >= 8
            \/ c = "majuscule" /\ \E i \in 1..Len(p) : p[i] \in 65..90
            \/ c = "minuscule" /\ \E i \in 1..Len(p) : p[i] \in 97..122
            \/ c = "chiffre" /\ \E i \in 1..Len(p) : p[i] \in 48..57
            \/ c = "special" /\ \E i \in 1..Len(p) : p[i] \notin (65..90) \cup (97..122) \cup (48..57)
            \/ c = "longueur12" /\ Len(p) >= 12}

\* C18: the score checkPasswordStrength returns is the number of criteria the
\* password satisfies among length >= 8, uppercase, lowercase, digit, symbol
\* and length >= 12; it lies in 0..6 and is 6 exactly when all six hold.
C18_StrengthScore ==
    ForceFini =>
        /\ fAppel.res[1].score = Cardinality(CriteresTenus)
        /\ fAppel.res[1].score \in 0..6
        /\ fAppel.res[1].score = 6 <=> Cardinality(CriteresTenus) = 6

\* a password of twelve characters with no digit has been scored 5
C18_Witness ==
    /\ ForceFini
    /\ Len(fAppel.password) = 12
    /\ "chiffre" \notin CriteresTenus
    /\ fAppel.res[1].score = 5

\* the messages of the criteria that have one, in the fixed order
MessagesDesCriteres ==
    <<[critere |-> "longueur8", message |-> MSG_LONGUEUR],
      [critere |-> "majuscule", message |-> MSG_MAJUSCULE],
      [critere |-> "minuscule", message |-> MSG_MINUSCULE],
      [critere |-> "chiffre", message |-> MSG_CHIFFRE],
      [critere |-> "special", message |-> MSG_SPECIAL]>>

EstMessageDeCritere(m) == \E i \in 1..5 : MessagesDesCriteres[i].message = m

EstManque(cm) == cm.critere \notin CriteresTenus

\* the messages of the failed criteria, in the fixed order
MessagesAttendus ==
    LET manques == SelectSeq(MessagesDesCriteres, EstManque)
    IN  [i \in 1..Len(manques) |-> manques[i].message]

DansFeedback(m) == \E i \in 1..Len(fAppel.res[1].feedback) : fAppel.res[1].feedback[i] = m

ErrFini == eAppel.pc = "fini"

ErrClasse == eAppel.err[1].classe

\* the body is structured: a message and a number, the status of the response
CorpsStructure ==
    /\ eAppel.res[1].body.success = FALSE
    /\ eAppel.res[1].body.error.message \in STRING
    /\ eAppel.res[1].body.error.status \in Nat
    /\ eAppel.res[1].body.error.status = eAppel.res[1].status

\* the status of the four classes that have one of their own
StatutDesClasses ==
    /\ ErrClasse = "ValidationError" => eAppel.res[1].status = 400
    /\ ErrClasse = "AuthenticationError" => eAppel.res[1].status = 401
    /\ ErrClasse = "AuthorizationError" => eAppel.res[1].status = 403
    /\ ErrClasse = "NotFoundError" => eAppel.res[1].status = 404
    /\ ErrClasse = "AppError" => eAppel.res[1].status = eAppel.err[1].status[1]

SansStack == eAppel.res[1].body.error.stack = <<>>

C21_StorageFailureIs500 ==
    (req.pc = "fini" /\ Dans("db.erreur", req.etapes)) => req.rep[1].status = 500

(***************************************************************************)
(* Concurrent updates.                                                     *)
(***************************************************************************)
\* both statements of the round have run
ConcFini == kEtat.pc = "cours" /\ Len(kEtat.ordre) = 2

\* the value a field has after the statements of the calls of ordre, run in
\* that order on the record avant: the one of the last call naming the field
DernierEcrit(nomme(_), valeur(_), initial) ==
    LET premier == kEtat.appels[kEtat.ordre[1]]
        dernier == kEtat.appels[kEtat.ordre[2]]
    IN  IF nomme(dernier.data) THEN valeur(dernier)
        ELSE IF nomme(premier.data) THEN valeur(premier)
        ELSE initial

\* C22: two concurrent updates of one record by its owner are each applied
\* as a whole and none is rejected for a conflict; the record left is the one
\* their serial application in the order of the statements gives: each field
\* has the value of the last statement that names it, and the stored secret
\* is, as a whole, the one of the last update that carries a secret.
C22_LastWriterWins ==
    ConcFini =>
        LET avant == kEtat.avant[1]
            NommeSite(d) == Truthy(d.site_web)
            NommeIdentifiant(d) == Truthy(d.identifiant)
            NommeSecret(d) == Truthy(d.mot_de_passe)
            NommeNotes(d) == d.notes # <<>>
            Site(a) == a.data.site_web[1]
            Identifiant(a) == a.data.identifiant[1]
            Secret(a) == BcryptHash(a.data.mot_de_passe[1], a.sel)
            Notes(a) == a.data.notes
        IN  /\ \A p \in 1..2 :
                 /\ ChampFourni(kEtat.appels[p].data) => kEtat.appels[p].res[1].ok
                 /\ ~ChampFourni(kEtat.appels[p].data) => kEtat.appels[p].res[1].status = 400
            /\ \E l \in mdp :
                 /\ mdp = {l}
                 /\ l.id = avant.id
                 /\ l.utilisateur_id = avant.utilisateur_id
                 /\ l.site_web = DernierEcrit(NommeSite, Site, avant.site_web)
                 /\ l.identifiant = DernierEcrit(NommeIdentifiant, Identifiant, avant.identifiant)
                 /\ l.mot_de_passe_crypte
                        = DernierEcrit(NommeSecret, Secret, avant.mot_de_passe_crypte)
                 /\ l.notes = DernierEcrit(NommeNotes, Notes, avant.notes)

\* two updates carrying different secrets have both succeeded, the second
\* call's statement first: the record holds the first call's secret and the
\* second call's site
C22_Witness ==
    /\ ConcFini
    /\ kEtat.ordre = <<2, 1>>
    /\ kEtat.appels[1].data.mot_de_passe = <<<<233, 58>>>>
    /\ kEtat.appels[2].data.mot_de_passe = <<<<58>>>>
    /\ kEtat.appels[1].res[1].ok
    /\ kEtat.appels[2].res[1].ok
    /\ \E l \in mdp :
         /\ l.mot_de_passe_crypte = BcryptHash(<<233, 58>>, kEtat.appels[1].sel)
         /\ l.site_web = <<117>>

(***************************************************************************)
(* The server secret.                                                      *)
(***************************************************************************)
\* C23: when the server secret is missing or empty at process start, key
\* derivation fails and the service does not start, and no text is ever
\* encrypted with a key derived from an absent, empty or default secret.
C23_MissingSecretIsFatal ==
    /\ (dEtat.pc # "arrete" /\ ~Truthy(dEtat.env)) =>
          /\ dEtat.pc = "echec"
          /\ dEtat.cle = <<>>
          /\ dEtat.enveloppe = <<>>
    /\ dEtat.enveloppe # <<>> =>
          /\ dEtat.cle # <<ScryptSync(<<>>, <<115, 101, 108>>, KEY_LENGTH)>>
          /\ dEtat.cle # <<ScryptSync(SECRET_DEFAUT, <<115, 101, 108>>, KEY_LENGTH)>>

(***************************************************************************)
(* Claims about authService.                                               *)
(***************************************************************************)
\* the call in progress is a login with the email of user u
LoginDe(u) == aEtat.appel.op = "login" /\ aEtat.appel.email = u.email

\* the login presented the password of u and its query did not fail
LoginCorrect(u) ==
    /\ LoginDe(u)
    /\ Dans("bcrypt.compare", aEtat.appel.res[1].evts)
    /\ aEtat.appel.res[1].status # 401 \/ Dans("est_verifie", aEtat.appel.res[1].evts)

\* login gives a token to the users of the set only, and rejects with 401
\* and no token the correct password of every other registered user
LoginReserveA(verifies) ==
    \A u \in aEtat.utilisateurs :
        /\ (LoginDe(u) /\ aEtat.appel.res[1].ok) => u.id \in verifies
        /\ (LoginCorrect(u) /\ u.id \notin verifies) =>
              /\ ~aEtat.appel.res[1].ok
              /\ aEtat.appel.res[1].status = 401
              /\ aEtat.appel.res[1].lignes = <<>>

\* C24, as stated: login returns a token for a user only if verifyEmail has
\* succeeded for that user; until then login with the correct password is
\* rejected with 401 and no token.
C24_LoginRequiresVerifiedEmail == LoginReserveA(aEtat.verifOk)

\* C24, amended: login returns a token for a user only if a call to
\* verifyEmail presenting an unexpired email token of that user has run its
\* UPDATE of the user (the call itself may then have failed on the deletion
\* of the token); until then login with the correct password is rejected
\* with 401 and no token.
C24_LoginRequiresVerifiedEmailAmended == LoginReserveA(aEtat.verifMaj)

\* a registered user whose email was never verified has presented the right
\* password and has been rejected with 401
C24_Witness ==
    \E u \in aEtat.utilisateurs :
        /\ LoginDe(u)
        /\ u.id \notin aEtat.verifMaj
        /\ aEtat.jetons # {}
        /\ aEtat.appel.res[1] = Rejete(401, <<"db.query", "bcrypt.compare", "est_verifie">>)

\* a reset_password token issued for user u that has not expired
JetonsResetValides(u) ==
    {j \in aEtat.jetons : /\ j.type = "reset_password"
                          /\ j.utilisateur_id = u.id
                          /\ j.expire_le >= temps}

\* C29: a user's mot_de_passe_hash is changed by resetPassword only, and only
\* when the request presents a reset_password token that requestPasswordReset
\* issued for that user and that has not expired.
C29_ResetGatedByToken ==
    [][\A u \in aEtat.utilisateurs : \A v \in aEtat'.utilisateurs :
          (v.id = u.id /\ v.mot_de_passe_hash # u.mot_de_passe_hash) =>
              /\ aEtat'.appel.op = "resetPassword"
              /\ \E j \in JetonsResetValides(u) : aEtat'.appel.token = <<j.token>>]_vars

(***************************************************************************)
(* Claims about db.transaction and throttle.                               *)
(***************************************************************************)
\* the call of t has ended after its callback ran and ended as given
TxTermine(t, issue) ==
    /\ tEtat.tx[t].pc = "fini"
    /\ Dans("callback", tEtat.tx[t].journal)
    /\ tEtat.tx[t].cb[1].issue = issue

\* BEGIN first, COMMIT after a callback that resolved, ROLLBACK and no COMMIT
\* after one that rejected, one release of the client on every path
TxOrdre(t) ==
    /\ Dans("callback", tEtat.tx[t].journal) => tEtat.tx[t].journal[1] = "BEGIN"
    /\ TxTermine(t, "resout") => Dans("COMMIT", tEtat.tx[t].journal)
    /\ (TxTermine(t, "resout") /\ ~Dans("ROLLBACK", tEtat.tx[t].journal)) =>
           tEtat.tx[t].issue = <<[ok |-> TRUE, val |-> tEtat.tx[t].cb[1].val]>>
    /\ TxTermine(t, "rejette") =>
           /\ Dans("ROLLBACK", tEtat.tx[t].journal)
           /\ ~Dans("COMMIT", tEtat.tx[t].journal)
    /\ tEtat.tx[t].relaches <= 1
    /\ (tEtat.tx[t].pc = "fini" /\ tEtat.tx[t].journal # <<>>) => tEtat.tx[t].relaches = 1

\* C25: db.transaction issues BEGIN before the callback runs; when the
\* callback resolves it issues COMMIT and, the COMMIT done, returns the
\* callback's result; when the callback rejects it issues ROLLBACK, never
\* COMMIT, and the caller receives the callback's own error; on every path
\* the client is released exactly once.
C25_TransactionProtocol ==
    \A t \in Transactions :
        /\ TxOrdre(t)
        /\ TxTermine(t, "rejette") =>
               tEtat.tx[t].issue = <<[ok |-> FALSE, val |-> tEtat.tx[t].cb[1].val]>>

\* C26: any two invocations of func by the throttled wrapper are at least
\* waitFor apart, whatever the interleaving of the calls to the wrapper and
\* of the firings of its timer.
C26_ThrottleSpacing ==
    \A i \in 1..Len(hEtat.invocations), j \in 1..Len(hEtat.invocations) :
        i < j => hEtat.invocations[j] - hEtat.invocations[i] >= hEtat.waitFor

(***************************************************************************)
(* Claims about the identity of the records.                               *)
(***************************************************************************)
\* every record of the table has an id of its own, given by the serial
IdsUniques(table, prochain) ==
    /\ \A l \in table, m \in table : l.id = m.id => l = m
    /\ \A l \in table : l.id < prochain

\* over one step every record keeps its id, its owner and its date of
\* creation or leaves the table, and a record that enters it has the next
\* id of the serial
IdentiteFigee(avant, apres, prochain) ==
    /\ \A l \in avant : \A m \in apres :
           m.id = l.id => (m.utilisateur_id = l.utilisateur_id /\ m.cree_le = l.cree_le)
    /\ \A m \in apres : (\A l \in avant : l.id # m.id) => m.id = prochain

\* C27: each record has a unique server-assigned id, and no operation of
\* passwordService (create, findAll, findById, update, delete) changes the id
\* or the utilisateur_id of a record that stays in the table; an update never
\* moves a record to another owner.
C27_IdentityImmutable ==
    /\ []IdsUniques(mdp, mdpId)
    /\ [][IdentiteFigee(mdp, mdp', mdpId)]_vars

\* two records of two owners are in the table and an update of one of them
\* has resolved
C27_Witness ==
    /\ sAppel.op = "update"
    /\ sAppel.res[1].ok
    /\ \E l \in mdp, m \in mdp : /\ l.id = sAppel.id
                                 /\ m.utilisateur_id # l.utilisateur_id

(***************************************************************************)
(* Claims about the revocation of sessions.                                *)
(***************************************************************************)
\* a row of sessions binds the request's token to its user and has not expired
SessionEnCours ==
    \E s \in sessions : /\ s.utilisateur_id = req.token.id
                        /\ s.token = req.token
                        /\ s.expire_le > temps

\* verifierToken ends its work on the request in this step
VerifierTokenConclut == req.pc = "verifierToken" /\ req'.pc # "verifierToken"

\* C28: once the session row of a token is gone (POST /deconnexion deleted
\* it), a request presenting the token is answered 401 by verifierToken and
\* reaches neither the PIN check nor a handler, although the token's signature
\* is valid and it has not expired; verifierToken lets a request through only
\* while a session row (user id, token) with expire_le in the future exists.
C28_LogoutRevokesSession ==
    [][ /\ (VerifierTokenConclut /\ JwtVerifyOk(req.token, temps) /\ ~SessionEnCours)
            => /\ req'.pc = "fini"
               /\ req'.rep = <<Reponse(401, <<>>)>>
               /\ \A i \in 1..Len(req'.etapes) : req'.etapes[i] \in EvtsSession
        /\ (VerifierTokenConclut /\ req'.pc # "fini")
            => (JwtVerifyOk(req.token, temps) /\ SessionEnCours) ]_vars

\* a token handed out by /connexion, still valid as a JWT, whose session row
\* was deleted, has been presented and answered 401 after the session lookup
C28_Witness ==
    /\ req.pc = "fini"
    /\ req.token \in emis
    /\ JwtVerifyOk(req.token, temps)
    /\ \A s \in sessions : s.token # req.token
    /\ req.rep = <<Reponse(401, <<>>)>>
    /\ req.etapes = <<"verifierToken", "jwt.verify", "sessions.select">>

\* the five criteria that have a feedback message
CriteresAvecMessage == {"longueur8", "majuscule", "minuscule", "chiffre", "special"}

\* C30: the feedback of checkPasswordStrength is never empty; it is the
\* one-element sentinel exactly when length >= 8, uppercase, lowercase, digit
\* and symbol all hold; length >= 12 changes the score only and adds no
\* message, so the sentinel comes with score 5 as well as with score 6.
C30_FeedbackSentinel ==
    ForceFini =>
        /\ fAppel.res[1].feedback # <<>>
        /\ fAppel.res[1].feedback = <<MSG_FORT>> <=> CriteresAvecMessage \subseteq CriteresTenus
        /\ \A i \in 1..Len(fAppel.res[1].feedback) :
               \/ fAppel.res[1].feedback[i] = MSG_FORT
               \/ EstMessageDeCritere(fAppel.res[1].feedback[i])
        /\ fAppel.res[1].feedback = <<MSG_FORT>> =>
               fAppel.res[1].score = (IF "longueur12" \in CriteresTenus THEN 6 ELSE 5)

\* a password shorter than twelve characters that meets the five criteria
\* has been checked: score 5 and the sentinel
C30_Witness ==
    /\ ForceFini
    /\ Len(fAppel.password) < 12
    /\ fAppel.res[1].score = 5
    /\ fAppel.res[1].feedback = <<MSG_FORT>>

====
